---- MODULE Spec2Model ----
(***************************************************************************)
(* Model of the ga4admin caching and query layer:                          *)
(*   - cache.CacheClient   (DuckDB tables metadata_cache, query_cache,     *)
(*                          cache_stats and the statements run on them)    *)
(*   - api.DataClient      (GetMetadata, RunReport, AnalyzeEvents,         *)
(*                          generateQueryHash)                             *)
(*   - query.Executor      (Execute, validateQuery, configToRequest,       *)
(*                          convertFilters, generateQueryHash)             *)
(*                                                                         *)
(* Time is the wall clock in whole seconds.  A table is the set of its     *)
(* rows; INSERT OR REPLACE removes the row that holds the same primary key *)
(* before it inserts.  The columns created_at and last_accessed are left   *)
(* out: no modelled statement reads them.  sha256.Sum256 is taken to be    *)
(* collision free.  Strings are valid UTF-8, on which json.Marshal is      *)
(* injective.                                                              *)
(***************************************************************************)
EXTENDS Integers, Sequences, FiniteSets, TLC

VARIABLES
    now,             \* time.Now() / NOW(), in seconds
    metadata_cache,  \* rows of table metadata_cache
    query_cache,     \* rows of table query_cache
    total_hits,      \* cache_stats.total_hits
    total_misses,    \* cache_stats.total_misses
    last,            \* the call that ran last: its arguments and what it returned
    hashed,          \* the digests computed so far, each with its configuration
    kept,            \* history: the keys that are followed and, per table, the
                     \* latest entry written under a followed key (Nil before
                     \* any); no code reads it
    template,        \* a query.QueryTemplate held by the caller
    presets,         \* the names of the preset files that exist
    active_preset,   \* GlobalConfig.ActivePreset
    deleted_at,      \* history: when the cache's preset was last deleted (Nil
                     \* before any); no code reads it
    reading          \* the cache read that has scanned an expired row and has
                     \* not yet run its DELETE (Nil when none)

\* the preset files and the global configuration
presetVars == <<presets, active_preset, deleted_at>>

vars == <<now, metadata_cache, query_cache, total_hits, total_misses, last, hashed,
          kept, template, presetVars, reading>>

----------------------------------------------------------------------------
(* Bounds *)

MaxHours == 1        \* the clock advances by at most this many whole hours
MaxSeconds == 1      \* ... and by at most this many single seconds within an hour
MaxRows == 2         \* rows per table
MaxReads == 2        \* accounted cache reads (total_hits + total_misses)
\* the uses of the template that are followed
MaxUsage == 2
MaxDays == 1         \* whole days the clock advances by
MaxLongReads == 6    \* accounted cache reads of the runs that last a day
MaxHashed == 2       \* digests kept for comparison

(* Program constants *)

SecondsPerHour == 3600
DefaultLimit == 10000
MaxLimit == 250000
SecondsPerDay == 24 * SecondsPerHour
MetadataTTLHours == 24
EventsTTLHours == 1
QueryTTLHours == 1

NoExpiry == -1       \* expires_at IS NULL / ttlHours == nil
NoData == "none"     \* the zero value left in the caller's result variable
NoHash == 0          \* the empty string where a digest is expected

\* pointers
Nil == <<>>                       \* a nil pointer
Ref(x) == <<x>>                   \* a pointer to x
Deref(p) == p[1]

----------------------------------------------------------------------------
(* cache.CacheClient *)

\* a faulty After: the operands exchanged, which is what Before computes
After_Swapped(t, expiresAt) == expiresAt > t

\* time.Now().After(expiresAt)
After(t, expiresAt) == t > expiresAt

\* expiresAt := time.Now().Add(time.Duration(ttlHours) * time.Hour)
ExpiresAt(t, ttlHours) == t + ttlHours * SecondsPerHour

\* INSERT OR REPLACE INTO metadata_cache: the table's primary key is the
\* single column property_id
MetadataKey(r) == r.property_id

InsertOrReplaceMetadata(table, row) ==
    {r \in table : MetadataKey(r) # MetadataKey(row)} \cup {row}

\* CacheMetadata: the row it inserts, and the table after the call
MetadataRow(t, propertyID, cacheType, data, ttlHours) ==
    [property_id |-> propertyID, cache_type |-> cacheType,
     data |-> data, expires_at |-> ExpiresAt(t, ttlHours)]

CacheMetadataTable(table, t, propertyID, cacheType, data, ttlHours) ==
    InsertOrReplaceMetadata(table,
        MetadataRow(t, propertyID, cacheType, data, ttlHours))

\* SELECT data, expires_at FROM metadata_cache WHERE property_id = ? AND cache_type = ?
SelectMetadata(table, propertyID, cacheType) ==
    {r \in table : r.property_id = propertyID /\ r.cache_type = cacheType}

\* GetCachedMetadata: what it returns and what it leaves behind.  dbErr is a
\* failure of the SELECT (any error other than sql.ErrNoRows); expires is
\* the expires_at it scanned (Nil when it scanned no row).
GetCachedMetadataResult(table, t, propertyID, cacheType, dbErr) ==
    LET rows == SelectMetadata(table, propertyID, cacheType) IN
    IF dbErr THEN
        [found |-> FALSE, err |-> TRUE, data |-> NoData, table |-> table,
         hits |-> 0, misses |-> 0, expires |-> Nil]
    ELSE IF rows = {} THEN
        [found |-> FALSE, err |-> FALSE, data |-> NoData, table |-> table,
         hits |-> 0, misses |-> 1, expires |-> Nil]
    ELSE LET r == CHOOSE r \in rows : TRUE IN
        IF After(t, r.expires_at) THEN
            [found |-> FALSE, err |-> FALSE, data |-> NoData,
             table |-> table \ rows, hits |-> 0, misses |-> 1,
             expires |-> Ref(r.expires_at)]
        ELSE
            [found |-> TRUE, err |-> FALSE, data |-> r.data, table |-> table,
             hits |-> 1, misses |-> 0, expires |-> Ref(r.expires_at)]

\* INSERT OR REPLACE INTO query_cache: the table's primary key is query_id
QueryKey(r) == r.query_id

InsertOrReplaceQuery(table, row) ==
    {r \in table : QueryKey(r) # QueryKey(row)} \cup {row}

\* CacheQuery: the row it inserts, and the table after the call
QueryRow(t, queryID, propertyID, queryHash, resultData, ttlHours) ==
    [query_id |-> queryID, property_id |-> propertyID,
     query_hash |-> queryHash, result_data |-> resultData,
     expires_at |-> IF ttlHours = NoExpiry THEN NoExpiry
                    ELSE ExpiresAt(t, ttlHours)]

CacheQueryTable(table, t, queryID, propertyID, queryHash, resultData, ttlHours) ==
    InsertOrReplaceQuery(table,
        QueryRow(t, queryID, propertyID, queryHash, resultData, ttlHours))

\* SELECT result_data, row_count, expires_at FROM query_cache WHERE query_hash = ?
SelectQuery(table, queryHash) == {r \in table : r.query_hash = queryHash}

\* expiresAt != nil && time.Now().After(*expiresAt)
QueryExpired(r, t) == r.expires_at # NoExpiry /\ After(t, r.expires_at)

\* GetCachedQuery.  QueryRowContext scans the first row of the result set;
\* the statement has no ORDER BY, so when several rows hold the hash the
\* row scanned is any one of them: row is that row.
GetCachedQueryResult(table, t, queryHash, dbErr, row) ==
    LET rows == SelectQuery(table, queryHash) IN
    IF dbErr THEN
        [found |-> FALSE, err |-> TRUE, data |-> NoData, table |-> table,
         hits |-> 0, misses |-> 0, property |-> "", expires |-> Nil]
    ELSE IF rows = {} THEN
        [found |-> FALSE, err |-> FALSE, data |-> NoData, table |-> table,
         hits |-> 0, misses |-> 1, property |-> "", expires |-> Nil]
    ELSE IF QueryExpired(row, t) THEN
        \* DELETE FROM query_cache WHERE query_hash = ?
        [found |-> FALSE, err |-> FALSE, data |-> NoData,
         table |-> table \ rows, hits |-> 0, misses |-> 1, property |-> "",
         expires |-> Ref(row.expires_at)]
    ELSE
        [found |-> TRUE, err |-> FALSE, data |-> row.result_data,
         table |-> table, hits |-> 1, misses |-> 0,
         property |-> row.property_id, expires |-> Ref(row.expires_at)]

\* the rows QueryRowContext may scan for a hash (a placeholder when none)
NoRow == [query_id |-> -1, property_id |-> "", query_hash |-> NoHash,
          result_data |-> NoData, expires_at |-> NoExpiry]

ScannedRows(table, queryHash) ==
    IF SelectQuery(table, queryHash) = {} THEN {NoRow}
    ELSE SelectQuery(table, queryHash)

\* History of the writes.  An entry is what one successful write stored
\* under its key: the pair (property_id, cache_type) for metadata, the
\* query_hash for a query result.
KeptMetadata(row) ==
    [table |-> "metadata_cache", key |-> <<row.property_id, row.cache_type>>,
     data |-> row.data, expires_at |-> row.expires_at]

KeptQuery(row) ==
    [table |-> "query_cache", key |-> <<row.query_hash>>,
     data |-> row.result_data, expires_at |-> row.expires_at]

\* the history after a write of `entry` (a pointer; Nil when nothing was
\* written): each write under a followed key replaces what is kept for its
\* table
Keep(k, entry) ==
    IF entry = Nil \/ Deref(entry).key \notin k.followed THEN k
    ELSE [k EXCEPT ![Deref(entry).table] = entry]

----------------------------------------------------------------------------
(* encoding/json: a JSON object is the sequence of its <<key, value>>      *)
(* members in struct-field order; a field tagged json:"-" has no member    *)
(* and a field tagged omitempty has none when it holds its zero value.     *)

Member(key, value) == << <<key, value>> >>
OmitEmpty(key, value, zero) == IF value = zero THEN <<>> ELSE Member(key, value)

\* api.NumericValue
MarshalNumericValue(v) ==
    OmitEmpty("int64Value", v.Int64Value, "") \o
    OmitEmpty("doubleValue", v.DoubleValue, "")

\* api.Filter
MarshalFilter(f) ==
    Member("fieldName", f.FieldName) \o
    (IF f.StringFilter = Nil THEN <<>>
     ELSE Member("stringFilter",
            Member("matchType", Deref(f.StringFilter).MatchType) \o
            Member("value", Deref(f.StringFilter).Value) \o
            Member("caseSensitive", Deref(f.StringFilter).CaseSensitive))) \o
    (IF f.NumericFilter = Nil THEN <<>>
     ELSE Member("numericFilter",
            Member("operation", Deref(f.NumericFilter).Operation) \o
            Member("value", MarshalNumericValue(Deref(f.NumericFilter).Value)))) \o
    (IF f.BetweenFilter = Nil THEN <<>>
     ELSE Member("betweenFilter",
            Member("fromValue", MarshalNumericValue(Deref(f.BetweenFilter).FromValue)) \o
            Member("toValue", MarshalNumericValue(Deref(f.BetweenFilter).ToValue)))) \o
    (IF f.InListFilter = Nil THEN <<>>
     ELSE Member("inListFilter",
            Member("values", Deref(f.InListFilter).Values) \o
            Member("caseSensitive", Deref(f.InListFilter).CaseSensitive)))

\* api.FilterExpression
RECURSIVE MarshalFilterExpression(_)
MarshalFilterExpression(e) ==
    (IF e.AndGroup = Nil THEN <<>>
     ELSE Member("andGroup",
            Member("expressions",
                   [i \in 1..Len(Deref(e.AndGroup)) |->
                       MarshalFilterExpression(Deref(e.AndGroup)[i])]))) \o
    (IF e.OrGroup = Nil THEN <<>>
     ELSE Member("orGroup",
            Member("expressions",
                   [i \in 1..Len(Deref(e.OrGroup)) |->
                       MarshalFilterExpression(Deref(e.OrGroup)[i])]))) \o
    (IF e.NotExpression = Nil THEN <<>>
     ELSE Member("notExpression", MarshalFilterExpression(Deref(e.NotExpression)))) \o
    (IF e.Filter = Nil THEN <<>>
     ELSE Member("filter", MarshalFilter(Deref(e.Filter))))

\* api.OrderBy
MarshalOrderBy(o) ==
    OmitEmpty("desc", o.Desc, FALSE) \o
    (IF o.Dimension = Nil THEN <<>>
     ELSE Member("dimension",
            Member("dimensionName", Deref(o.Dimension).DimensionName) \o
            OmitEmpty("orderType", Deref(o.Dimension).OrderType, ""))) \o
    (IF o.Metric = Nil THEN <<>>
     ELSE Member("metric", Member("metricName", Deref(o.Metric).MetricName)))

MarshalName(d) == Member("name", d.Name)

MarshalDateRange(d) ==
    Member("startDate", d.StartDate) \o Member("endDate", d.EndDate)

\* api.RunReportRequest: Property is tagged json:"-".  MetricFilter,
\* MetricAggregations, CurrencyCode, KeepEmptyRows and ReturnPropertyQuota
\* are omitempty and hold their zero values in every modelled request.
MarshalRequest(request) ==
    OmitEmpty("dimensions", [i \in 1..Len(request.Dimensions) |-> MarshalName(request.Dimensions[i])], <<>>) \o
    OmitEmpty("metrics", [i \in 1..Len(request.Metrics) |-> MarshalName(request.Metrics[i])], <<>>) \o
    Member("dateRanges", [i \in 1..Len(request.DateRanges) |-> MarshalDateRange(request.DateRanges[i])]) \o
    (IF request.DimensionFilter = Nil THEN <<>>
     ELSE Member("dimensionFilter",
                 MarshalFilterExpression(Deref(request.DimensionFilter)))) \o
    OmitEmpty("offset", request.Offset, 0) \o
    OmitEmpty("limit", request.Limit, 0) \o
    OmitEmpty("orderBys", [i \in 1..Len(request.OrderBys) |-> MarshalOrderBy(request.OrderBys[i])], <<>>)

\* query.FilterConfig
MarshalFilterConfig(f) ==
    Member("field_name", f.FieldName) \o
    Member("type", f.Type) \o
    OmitEmpty("string_match_type", f.StringMatchType, "") \o
    OmitEmpty("string_value", f.StringValue, "") \o
    OmitEmpty("string_case_sensitive", f.StringCaseSensitive, FALSE) \o
    OmitEmpty("numeric_operation", f.NumericOperation, "") \o
    OmitEmpty("numeric_value", f.NumericValue, 0) \o
    OmitEmpty("between_from", f.BetweenFrom, 0) \o
    OmitEmpty("between_to", f.BetweenTo, 0) \o
    OmitEmpty("in_list_values", f.InListValues, <<>>) \o
    OmitEmpty("in_list_case_sensitive", f.InListCaseSensitive, FALSE)

\* query.OrderByConfig
MarshalOrderByConfig(o) ==
    Member("field_name", o.FieldName) \o
    Member("field_type", o.FieldType) \o
    Member("descending", o.Descending) \o
    OmitEmpty("order_type", o.OrderType, "")

\* query.QueryConfig.  Description, KeepEmptyRows, MetricAggregations,
\* CurrencyCode, ReturnPropertyQuota and CreatedBy are omitempty and hold
\* their zero values in every modelled configuration.
MarshalConfig(config) ==
    Member("property_id", config.PropertyID) \o
    OmitEmpty("name", config.Name, "") \o
    Member("dimensions", config.Dimensions) \o
    Member("metrics", config.Metrics) \o
    Member("start_date", config.StartDate) \o
    Member("end_date", config.EndDate) \o
    OmitEmpty("limit", config.Limit, 0) \o
    OmitEmpty("offset", config.Offset, 0) \o
    OmitEmpty("filters", [i \in 1..Len(config.Filters) |-> MarshalFilterConfig(config.Filters[i])], <<>>) \o
    OmitEmpty("order_by", [i \in 1..Len(config.OrderBy) |-> MarshalOrderByConfig(config.OrderBy[i])], <<>>) \o
    Member("created_at", config.CreatedAt) \o
    Member("updated_at", config.UpdatedAt)

----------------------------------------------------------------------------
(* query.Executor.  An error is its message, "" is nil.  A float64 filter  *)
(* value is held in tenths (55 is 5.5).                                    *)

\* contains
contains(slice, item) == \E i \in 1..Len(slice) : slice[i] = item

\* Executor.validateFilter: the error, and the filter as the callee leaves it
validateFilter(filter) ==
    IF filter.FieldName = "" THEN
        [err |-> "field name is required", filter |-> filter]
    ELSE IF filter.Type = "string" THEN
        LET f == IF filter.StringMatchType = ""
                 THEN [filter EXCEPT !.StringMatchType = "EXACT"] ELSE filter IN
        IF f.StringValue = "" THEN
            [err |-> "string value is required for string filter", filter |-> f]
        ELSE IF ~contains(<<"EXACT", "CONTAINS", "STARTS_WITH", "ENDS_WITH", "REGEX">>,
                          f.StringMatchType) THEN
            [err |-> "invalid string match type", filter |-> f]
        ELSE [err |-> "", filter |-> f]
    ELSE IF filter.Type = "numeric" THEN
        IF filter.NumericOperation = "" THEN
            [err |-> "numeric operation is required for numeric filter", filter |-> filter]
        ELSE IF ~contains(<<"EQUAL", "GREATER_THAN", "LESS_THAN",
                            "GREATER_THAN_OR_EQUAL", "LESS_THAN_OR_EQUAL">>,
                          filter.NumericOperation) THEN
            [err |-> "invalid numeric operation", filter |-> filter]
        ELSE [err |-> "", filter |-> filter]
    ELSE IF filter.Type = "between" THEN
        IF filter.BetweenFrom >= filter.BetweenTo THEN
            [err |-> "between filter 'from' value must be less than 'to' value",
             filter |-> filter]
        ELSE [err |-> "", filter |-> filter]
    ELSE IF filter.Type = "in_list" THEN
        IF Len(filter.InListValues) = 0 THEN
            [err |-> "in-list values are required for in_list filter", filter |-> filter]
        ELSE [err |-> "", filter |-> filter]
    ELSE IF filter.Type = "" THEN
        [err |-> "", filter |-> [filter EXCEPT !.Type = "string"]]
    ELSE [err |-> "invalid filter type", filter |-> filter]

\* Executor.validateOrderBy: the error, and the entry as the callee leaves it
validateOrderBy(orderBy, config) ==
    IF orderBy.FieldName = "" THEN
        [err |-> "field name is required for order by", orderBy |-> orderBy]
    ELSE IF orderBy.FieldType = "dimension" THEN
        IF ~contains(config.Dimensions, orderBy.FieldName) THEN
            [err |-> "dimension not found in query dimensions", orderBy |-> orderBy]
        ELSE IF orderBy.OrderType # "" /\
                ~contains(<<"ALPHANUMERIC", "CASE_INSENSITIVE_ALPHANUMERIC", "NUMERIC">>,
                          orderBy.OrderType) THEN
            [err |-> "invalid order type for dimension", orderBy |-> orderBy]
        ELSE [err |-> "", orderBy |-> orderBy]
    ELSE IF orderBy.FieldType = "metric" THEN
        IF ~contains(config.Metrics, orderBy.FieldName) THEN
            [err |-> "metric not found in query metrics", orderBy |-> orderBy]
        ELSE [err |-> "", orderBy |-> orderBy]
    ELSE IF contains(config.Dimensions, orderBy.FieldName) THEN
        [err |-> "", orderBy |-> [orderBy EXCEPT !.FieldType = "dimension"]]
    ELSE IF contains(config.Metrics, orderBy.FieldName) THEN
        [err |-> "", orderBy |-> [orderBy EXCEPT !.FieldType = "metric"]]
    ELSE [err |-> "field not found in dimensions or metrics", orderBy |-> orderBy]

\* a faulty validateQuery: the offset is not looked at
validateQuery_OffsetUnchecked(config) ==
    LET defaulted == IF config.Limit <= 0
                     THEN [config EXCEPT !.Limit = DefaultLimit] ELSE config
    IN
    IF config.PropertyID = "" THEN
        [err |-> "property ID is required", config |-> config]
    ELSE IF config.StartDate = "" \/ config.EndDate = "" THEN
        [err |-> "date range is required (start_date and end_date)", config |-> config]
    ELSE IF Len(config.Dimensions) = 0 /\ Len(config.Metrics) = 0 THEN
        [err |-> "at least one dimension or metric is required", config |-> config]
    ELSE IF config.Limit > MaxLimit THEN
        [err |-> "limit cannot exceed 250,000 rows", config |-> config]
    ELSE IF \E i \in 1..Len(defaulted.Filters) :
                validateFilter(defaulted.Filters[i]).err # "" THEN
        [err |-> "filter is invalid", config |-> defaulted]
    ELSE IF \E i \in 1..Len(defaulted.OrderBy) :
                validateOrderBy(defaulted.OrderBy[i], defaulted).err # "" THEN
        [err |-> "order by is invalid", config |-> defaulted]
    ELSE [err |-> "", config |-> defaulted]

\* Executor.validateQuery: the error, and the caller's config as the call
\* leaves it.  The two loops range over the slices by value: validateFilter
\* and validateOrderBy are handed the address of the loop variable, so what
\* they assign does not reach config.Filters and config.OrderBy.
validateQuery(config) ==
    LET defaulted == IF config.Limit <= 0
                     THEN [config EXCEPT !.Limit = DefaultLimit] ELSE config
    IN
    IF config.PropertyID = "" THEN
        [err |-> "property ID is required", config |-> config]
    ELSE IF config.StartDate = "" \/ config.EndDate = "" THEN
        [err |-> "date range is required (start_date and end_date)", config |-> config]
    ELSE IF Len(config.Dimensions) = 0 /\ Len(config.Metrics) = 0 THEN
        [err |-> "at least one dimension or metric is required", config |-> config]
    ELSE IF config.Limit > MaxLimit THEN
        [err |-> "limit cannot exceed 250,000 rows", config |-> config]
    ELSE IF defaulted.Offset < 0 THEN
        [err |-> "offset cannot be negative", config |-> defaulted]
    ELSE IF \E i \in 1..Len(defaulted.Filters) :
                validateFilter(defaulted.Filters[i]).err # "" THEN
        [err |-> "filter is invalid", config |-> defaulted]
    ELSE IF \E i \in 1..Len(defaulted.OrderBy) :
                validateOrderBy(defaulted.OrderBy[i], defaulted).err # "" THEN
        [err |-> "order by is invalid", config |-> defaulted]
    ELSE [err |-> "", config |-> defaulted]

\* int64(v): truncation toward zero
Int64(v) == IF v >= 0 THEN v \div 10 ELSE -((-v) \div 10)

\* strconv.FormatInt(n, 10)
FormatInt(n) == ToString(n)

\* strconv.FormatFloat(v, 'f', -1, 64): the shortest decimal that reads back as v
FormatFloat(v) ==
    LET a == IF v >= 0 THEN v ELSE -v IN
    (IF v < 0 THEN "-" ELSE "") \o ToString(a \div 10) \o
    (IF a % 10 = 0 THEN "" ELSE "." \o ToString(a % 10))

\* a faulty NumericValueOf: every value takes the integer form
NumericValueOf_Truncated(v) ==
    [Int64Value |-> FormatInt(Int64(v)), DoubleValue |-> ""]

\* a faulty NumericValueOf: both forms are filled in
NumericValueOf_BothForms(v) ==
    [Int64Value |-> FormatInt(Int64(v)), DoubleValue |-> FormatFloat(v)]

\* the api.NumericValue built for a float64 in convertSingleFilter:
\* v == float64(int64(v)) selects the integer form
NumericValueOf(v) ==
    IF v = Int64(v) * 10
    THEN [Int64Value |-> FormatInt(Int64(v)), DoubleValue |-> ""]
    ELSE [Int64Value |-> "", DoubleValue |-> FormatFloat(v)]

NoFilter == [FieldName |-> "", StringFilter |-> Nil, NumericFilter |-> Nil,
             BetweenFilter |-> Nil, InListFilter |-> Nil]

NoExpression == [AndGroup |-> Nil, OrGroup |-> Nil, NotExpression |-> Nil,
                 Filter |-> Nil]

\* Executor.convertSingleFilter
convertSingleFilter(filter) ==
    LET apiFilter == [NoFilter EXCEPT !.FieldName = filter.FieldName]
        Leaf(f) == [expr |-> Ref([NoExpression EXCEPT !.Filter = Ref(f)]), err |-> ""]
    IN
    IF filter.Type = "string" THEN
        Leaf([apiFilter EXCEPT !.StringFilter =
                 Ref([MatchType |-> filter.StringMatchType,
                      Value |-> filter.StringValue,
                      CaseSensitive |-> filter.StringCaseSensitive])])
    ELSE IF filter.Type = "numeric" THEN
        Leaf([apiFilter EXCEPT !.NumericFilter =
                 Ref([Operation |-> filter.NumericOperation,
                      Value |-> NumericValueOf(filter.NumericValue)])])
    ELSE IF filter.Type = "between" THEN
        Leaf([apiFilter EXCEPT !.BetweenFilter =
                 Ref([FromValue |-> NumericValueOf(filter.BetweenFrom),
                      ToValue |-> NumericValueOf(filter.BetweenTo)])])
    ELSE IF filter.Type = "in_list" THEN
        Leaf([apiFilter EXCEPT !.InListFilter =
                 Ref([Values |-> filter.InListValues,
                      CaseSensitive |-> filter.InListCaseSensitive])])
    ELSE [expr |-> Nil, err |-> "unsupported filter type"]

\* a faulty convertFilters: the group lists the filters last to first
convertFilters_Reversed(filters) ==
    LET converted == [i \in 1..Len(filters) |-> convertSingleFilter(filters[i])] IN
    IF Len(filters) = 0 THEN [expr |-> Nil, err |-> ""]
    ELSE IF \E i \in 1..Len(filters) : converted[i].err # "" THEN
        [expr |-> Nil, err |-> "unsupported filter type"]
    ELSE IF Len(filters) = 1 THEN [expr |-> converted[1].expr, err |-> ""]
    ELSE [expr |-> Ref([NoExpression EXCEPT !.AndGroup =
                          Ref([i \in 1..Len(filters) |->
                                  Deref(converted[Len(filters) + 1 - i].expr)])]),
          err |-> ""]

\* Executor.convertFilters
convertFilters(filters) ==
    LET converted == [i \in 1..Len(filters) |-> convertSingleFilter(filters[i])] IN
    IF Len(filters) = 0 THEN [expr |-> Nil, err |-> ""]
    ELSE IF \E i \in 1..Len(filters) : converted[i].err # "" THEN
        [expr |-> Nil, err |-> "unsupported filter type"]
    ELSE IF Len(filters) = 1 THEN [expr |-> converted[1].expr, err |-> ""]
    ELSE [expr |-> Ref([NoExpression EXCEPT !.AndGroup =
                          Ref([i \in 1..Len(filters) |-> Deref(converted[i].expr)])]),
          err |-> ""]

\* the api.OrderBy built for one entry in configToRequest
convertOrderBy(orderBy) ==
    IF orderBy.FieldType = "dimension" THEN
        [Desc |-> orderBy.Descending,
         Dimension |-> Ref([DimensionName |-> orderBy.FieldName,
                            OrderType |-> orderBy.OrderType]),
         Metric |-> Nil]
    ELSE
        [Desc |-> orderBy.Descending, Dimension |-> Nil,
         Metric |-> Ref([MetricName |-> orderBy.FieldName])]

ApiName(name) == [Name |-> name]

\* Executor.configToRequest
configToRequest(config) ==
    LET filterExpr == convertFilters(config.Filters) IN
    IF Len(config.Filters) > 0 /\ filterExpr.err # "" THEN
        [request |-> Nil, err |-> "failed to convert filters"]
    ELSE
        [request |-> Ref(
            [Property |-> config.PropertyID,
             Dimensions |-> [i \in 1..Len(config.Dimensions) |-> ApiName(config.Dimensions[i])],
             Metrics |-> [i \in 1..Len(config.Metrics) |-> ApiName(config.Metrics[i])],
             DateRanges |-> << [StartDate |-> config.StartDate,
                                EndDate |-> config.EndDate] >>,
             DimensionFilter |-> IF Len(config.Filters) > 0
                                 THEN filterExpr.expr ELSE Nil,
             Offset |-> config.Offset,
             Limit |-> config.Limit,
             OrderBys |-> [i \in 1..Len(config.OrderBy) |-> convertOrderBy(config.OrderBy[i])]]),
         err |-> ""]

----------------------------------------------------------------------------
(* query.QueryBuilder: the date checks of ValidateQuery, on the date tokens *)
(* of the modelled configurations                                          *)

\* time.Parse("2006-01-02", date) returns no error
ParsesAsDate(date) == date \in {"2024-01-01", "2024-01-31"}

\* isRelativeDate: the token contains today, yesterday, daysAgo, weeksAgo,
\* monthsAgo or yearsAgo
isRelativeDate(date) == date \in {"today", "yesterday", "30daysAgo", "7daysAgo"}

----------------------------------------------------------------------------
(* The requests the data client builds itself *)

\* request.Limit as RunReport leaves it: 0 becomes the GA4 default
DefaultedRequest(request) ==
    IF request.Limit = 0 THEN [request EXCEPT !.Limit = DefaultLimit] ELSE request

\* fmt.Sprintf("events_%d", days)
EventsCacheKey(days) == "events_" \o ToString(days)

\* the report request AnalyzeEvents builds
EventsRequest(propertyID, days) ==
    [Property |-> propertyID,
     Dimensions |-> << ApiName("eventName") >>,
     Metrics |-> << ApiName("eventCount"), ApiName("activeUsers") >>,
     DateRanges |-> << [StartDate |-> ToString(days) \o "daysAgo",
                        EndDate |-> "yesterday"] >>,
     DimensionFilter |-> Nil,
     Offset |-> 0,
     Limit |-> 100,
     OrderBys |-> << [Desc |-> TRUE, Dimension |-> Nil,
                      Metric |-> Ref([MetricName |-> "eventCount"])] >>]

----------------------------------------------------------------------------
(* Inputs *)

Properties == {"123", "456"}

\* the preset whose cache file (<name>.db) the cache client has opened
CachePreset == "work"
\* the names the preset functions are called with, and those of them that
\* validPresetName (^[a-zA-Z0-9_-]+$, at most 50 characters) matches
PresetNames == {CachePreset, "home", "my preset", ""}
MatchedPresetNames == {CachePreset, "home"}
MetaProperties == {"123"}      \* the properties whose metadata is asked for
Payloads == {"report A", "report B"}
Days == {0, 7}

BaseFilter ==
    [FieldName |-> "country", Type |-> "string", StringMatchType |-> "EXACT",
     StringValue |-> "US", StringCaseSensitive |-> FALSE,
     NumericOperation |-> "", NumericValue |-> 0, BetweenFrom |-> 0,
     BetweenTo |-> 0, InListValues |-> <<>>, InListCaseSensitive |-> FALSE]

\* a numeric filter; float64 values are written in tenths
NumericFilter(v) ==
    [BaseFilter EXCEPT !.FieldName = "sessionCount", !.Type = "numeric",
                       !.NumericOperation = "GREATER_THAN", !.NumericValue = v]

\* a between filter
BetweenFilter(from, to) ==
    [BaseFilter EXCEPT !.FieldName = "sessionCount", !.Type = "between",
                       !.StringMatchType = "", !.StringValue = "",
                       !.BetweenFrom = from, !.BetweenTo = to]

\* an in-list filter
InListFilter ==
    [BaseFilter EXCEPT !.Type = "in_list", !.StringMatchType = "",
                       !.StringValue = "", !.InListValues = <<"US", "DE">>]

\* an order-by entry
OrderByField(name, type) ==
    [FieldName |-> name, FieldType |-> type, Descending |-> TRUE, OrderType |-> ""]

BaseConfig ==
    [PropertyID |-> "123", Name |-> "", Dimensions |-> <<"country", "city">>,
     Metrics |-> <<"sessions", "totalUsers">>, StartDate |-> "30daysAgo",
     EndDate |-> "yesterday", Limit |-> 0, Offset |-> 0,
     Filters |-> <<BaseFilter>>, OrderBy |-> <<>>, CreatedAt |-> 0,
     UpdatedAt |-> 0]

\* configurations that exercise validateQuery and configToRequest
ValidationConfigs ==
    << \* paging
       [BaseConfig EXCEPT !.Offset = -1],
       [BaseConfig EXCEPT !.Limit = -5],
       [BaseConfig EXCEPT !.Limit = MaxLimit, !.Offset = 3],
       [BaseConfig EXCEPT !.Limit = 1],
       \* required fields and dates
       [BaseConfig EXCEPT !.PropertyID = ""],
       [BaseConfig EXCEPT !.StartDate = ""],
       [BaseConfig EXCEPT !.EndDate = ""],
       [BaseConfig EXCEPT !.Dimensions = <<>>, !.Metrics = <<>>, !.Filters = <<>>],
       [BaseConfig EXCEPT !.Dimensions = <<>>, !.Filters = <<>>],
       [BaseConfig EXCEPT !.StartDate = "2024-01-01", !.EndDate = "2024-01-31"],
       [BaseConfig EXCEPT !.StartDate = "last week"],
       [BaseConfig EXCEPT !.EndDate = "31/01/2024"],
       \* filters
       [BaseConfig EXCEPT !.Filters = <<>>],
       [BaseConfig EXCEPT !.Filters = << BaseFilter, NumericFilter(55) >>],
       [BaseConfig EXCEPT !.Filters = << NumericFilter(-50), BaseFilter,
                                         BetweenFilter(50, 75) >>],
       [BaseConfig EXCEPT !.Filters = << BetweenFilter(-55, 60) >>],
       [BaseConfig EXCEPT !.Filters = << BetweenFilter(60, 60) >>],
       [BaseConfig EXCEPT !.Filters = << InListFilter, NumericFilter(0) >>],
       [BaseConfig EXCEPT !.Filters = << [BaseFilter EXCEPT !.StringMatchType = ""] >>],
       [BaseConfig EXCEPT !.Filters = << [BaseFilter EXCEPT !.StringMatchType = "CONTAINS"] >>],
       [BaseConfig EXCEPT !.Filters = << [BaseFilter EXCEPT !.Type = "",
                                                           !.StringMatchType = ""] >>],
       [BaseConfig EXCEPT !.Filters = << [BaseFilter EXCEPT !.Type = "regexp"] >>],
       [BaseConfig EXCEPT !.Filters = << [BaseFilter EXCEPT !.FieldName = ""] >>],
       \* order by
       [BaseConfig EXCEPT !.OrderBy = << OrderByField("country", "") >>],
       [BaseConfig EXCEPT !.OrderBy = << OrderByField("sessions", "") >>],
       [BaseConfig EXCEPT !.OrderBy = << OrderByField("bounceRate", "") >>],
       [BaseConfig EXCEPT !.Dimensions = <<"country", "sessions">>,
                          !.OrderBy = << OrderByField("sessions", "") >>],
       [BaseConfig EXCEPT !.OrderBy = << OrderByField("country", "dimension"),
                                         OrderByField("sessions", "metric") >>],
       [BaseConfig EXCEPT !.OrderBy = << OrderByField("sessions", "dimension") >>] >>

\* the configurations Execute is called with
Configs ==
    << BaseConfig,
       [BaseConfig EXCEPT !.PropertyID = "456"],
       [BaseConfig EXCEPT !.Filters = << [BaseFilter EXCEPT !.StringValue = "DE"] >>],
       [BaseConfig EXCEPT !.Limit = MaxLimit + 1] >> \o ValidationConfigs

\* a value of an override map, with its dynamic type
Value(type, value) == [type |-> type, value |-> value]

\* the override maps ExecuteTemplate is called with
TemplateOverrides ==
    << <<>>,
       [limit |-> Value("int", 1)],
       [limit |-> Value("int64", MaxLimit), offset |-> Value("int", 3)],
       [limit |-> Value("int64", MaxLimit + 1)],
       [limit |-> Value("int", -5)],
       [offset |-> Value("int64", -1)],
       [start_date |-> Value("string", "2024-01-01"),
        end_date |-> Value("string", "2024-01-31")],
       [start_date |-> Value("string", "last week")],
       [end_date |-> Value("string", "")],
       \* values of other dynamic types, and another key
       [limit |-> Value("float64", 1)],
       [offset |-> Value("string", "3")],
       [start_date |-> Value("int", 20240101)],
       [property_id |-> Value("string", "456")] >>

\* the configurations of the query path: same query, other property, other
\* filter value, limit out of range
QueryInputs == 1..4

ExecuteConfigs == {Configs[i] : i \in QueryInputs}

\* the configurations whose digests are compared: BaseConfig and its
\* variants in one field
HashConfigs ==
    ExecuteConfigs \cup
    {[BaseConfig EXCEPT !.Name = "weekly report"],
     [BaseConfig EXCEPT !.CreatedAt = 1],
     [BaseConfig EXCEPT !.UpdatedAt = 1],
     [BaseConfig EXCEPT !.Dimensions = <<"city", "country">>],
     [BaseConfig EXCEPT !.Metrics = <<"totalUsers", "sessions">>],
     [BaseConfig EXCEPT !.StartDate = "7daysAgo"],
     [BaseConfig EXCEPT !.EndDate = "today"],
     [BaseConfig EXCEPT !.Filters = << NumericFilter(50) >>],
     [BaseConfig EXCEPT !.Filters = << NumericFilter(55) >>],
     [BaseConfig EXCEPT !.Filters = << NumericFilter(60) >>]}

----------------------------------------------------------------------------
(* crypto/sha256.  Sum256 is collision free: the digest of a message is    *)
(* its position in the list of all messages that are ever hashed.          *)

RECURSIVE SeqOf(_)
SeqOf(S) ==
    IF S = {} THEN <<>>
    ELSE LET x == CHOOSE x \in S : TRUE IN <<x>> \o SeqOf(S \ {x})

\* every configuration that is digested
DigestedConfigs == HashConfigs \cup {Configs[i] : i \in DOMAIN Configs}

\* the api.RunReportRequests built from the inputs
BuiltRequests ==
    {EventsRequest(p, d) : p \in Properties, d \in Days} \cup
    {Deref(configToRequest(validateQuery(c).config).request) :
        c \in {c \in DigestedConfigs :
                  /\ validateQuery(c).err = ""
                  /\ configToRequest(validateQuery(c).config).err = ""}}

HashedMessages ==
    {MarshalRequest(DefaultedRequest(r)) : r \in BuiltRequests} \cup
    {MarshalConfig(validateQuery(c).config) : c \in DigestedConfigs}

Preimages == SeqOf(HashedMessages)

Sum256(data) == CHOOSE h \in 1..Len(Preimages) : Preimages[h] = data

\* DataClient.generateQueryHash
DataClient_generateQueryHash(request) == Sum256(MarshalRequest(request))

\* Executor.generateQueryHash
Executor_generateQueryHash(config) == Sum256(MarshalConfig(config))

\* validateQuery, configToRequest and the two digests of Execute, tabulated
\* over Configs
Validated == [i \in DOMAIN Configs |-> validateQuery(Configs[i])]
Converted == [i \in DOMAIN Configs |-> configToRequest(Validated[i].config)]
ConfigHash ==
    [i \in DOMAIN Configs |-> Executor_generateQueryHash(Validated[i].config)]

\* the request Execute hands to RunReport (Nil when it returns before that)
ExecuteRequest ==
    [i \in DOMAIN Configs |->
        IF Validated[i].err # "" THEN Nil ELSE Converted[i].request]

\* queryHash = c.generateQueryHash(request) in RunReport, tabulated over the
\* requests of Execute and of AnalyzeEvents
RequestHash ==
    [i \in DOMAIN Configs |->
        IF ExecuteRequest[i] = Nil THEN NoHash
        ELSE DataClient_generateQueryHash(DefaultedRequest(Deref(ExecuteRequest[i])))]

EventsHash ==
    [p \in Properties, d \in Days |->
        DataClient_generateQueryHash(DefaultedRequest(EventsRequest(p, d)))]

\* the digests the cache API is called with directly
StoreHashes == {RequestHash[i] : i \in QueryInputs} \ {NoHash}

CacheTypes == {"metadata", EventsCacheKey(7)}

\* the keys a history follows: one per table
FollowedMetadata == <<"123", "metadata">>
FollowedQuery == <<RequestHash[1]>>
TTLHours == {1}

----------------------------------------------------------------------------
(* api.DataClient, built by NewDataClientWithCache (cacheClient is not     *)
(* nil).  The reporting gateway is the authenticated HTTP client; outcome  *)
(* is what one round trip to it comes to.                                  *)

GatewayOutcomes ==
    {"ok", "auth_error", "cancelled", "not_found", "bad_status", "decode_error"}

\* a faulty GatewayError: the error of Decode is dropped
GatewayError_DecodeIgnored(outcome) ==
    CASE outcome = "ok" -> ""
      [] outcome = "auth_error" -> "failed to get authenticated HTTP client"
      [] outcome = "cancelled" -> "failed to make request to GA4 Data API"
      [] outcome = "not_found" -> "property not found or not accessible"
      [] outcome = "bad_status" -> "GA4 Data API returned status"
      [] outcome = "decode_error" -> ""

\* the error RunReport / GetMetadata return for an outcome ("" for none)
GatewayError(outcome) ==
    CASE outcome = "ok" -> ""
      [] outcome = "auth_error" -> "failed to get authenticated HTTP client"
      [] outcome = "cancelled" -> "failed to make request to GA4 Data API"
      [] outcome = "not_found" -> "property not found or not accessible"
      [] outcome = "bad_status" -> "GA4 Data API returned status"
      [] outcome = "decode_error" -> "failed to decode report response"

\* AuthenticatedHTTPClient failed: httpClient.Get / Post is never reached
GatewayInvoked(outcome) == outcome # "auth_error"

\* a faulty probe test: err == nil && !found
ProbeHit_Inverted(probe) == ~probe.err /\ ~probe.found

\* a faulty probe test: err != nil || found
ProbeHit_ErrIsHit(probe) == probe.err \/ probe.found

\* the cache probe counts as a hit: err == nil && found
ProbeHit(probe) == ~probe.err /\ probe.found

\* fmt.Sprintf("query_%d", time.Now().Unix())
QueryID(t) == t

NoReport ==
    [response |-> NoData, err |-> "", table |-> {}, hits |-> 0, misses |-> 0,
     probed |-> FALSE, found |-> FALSE, hit |-> FALSE, gateway |-> FALSE,
     wrote |-> FALSE, written |-> Nil, queryHash |-> NoHash, property |-> "",
     readErr |-> FALSE, writeErr |-> FALSE, outcome |-> "none",
     request |-> Nil]

\* DataClient.RunReport on the query_cache rows `table` at time t: what it
\* returns (response, err), what it leaves behind (table, hits, misses) and
\* what it did (found: what the probe returned; written: the row stored;
\* request: the request posted to the gateway).
\*   queryHash: c.generateQueryHash(request), taken after the limit default;
\*   readErr, writeErr: the cache statement fails; row: the row the probe scans;
\*   outcome, payload: what the gateway does and the report it returns.
RunReportResult(table, t, request, queryHash, readErr, row, outcome, payload, writeErr) ==
    LET req == DefaultedRequest(request)
        probe == GetCachedQueryResult(table, t, queryHash, readErr, row)
        early == [NoReport EXCEPT !.table = table]
        probed == [early EXCEPT !.probed = TRUE, !.queryHash = queryHash,
                                !.table = probe.table, !.hits = probe.hits,
                                !.misses = probe.misses, !.readErr = probe.err,
                                !.found = probe.found]
        row1 == QueryRow(t, QueryID(t), req.Property, queryHash, payload,
                         QueryTTLHours)
    IN
    IF request.Property = "" THEN
        [early EXCEPT !.err = "property ID is required"]
    ELSE IF Len(request.DateRanges) = 0 THEN
        [early EXCEPT !.err = "at least one date range is required"]
    ELSE IF req.Limit > MaxLimit THEN
        [early EXCEPT !.err = "limit cannot exceed 250,000 rows"]
    ELSE IF ProbeHit(probe) THEN
        [probed EXCEPT !.response = probe.data, !.hit = TRUE,
                       !.property = probe.property]
    ELSE IF GatewayError(outcome) # "" THEN
        [probed EXCEPT !.err = GatewayError(outcome), !.outcome = outcome,
                       !.gateway = GatewayInvoked(outcome),
                       !.request = IF GatewayInvoked(outcome) THEN Ref(req) ELSE Nil]
    ELSE
        [probed EXCEPT !.response = payload, !.gateway = TRUE,
                       !.request = Ref(req),
                       !.outcome = outcome, !.writeErr = writeErr,
                       !.wrote = ~writeErr,
                       !.written = IF writeErr THEN Nil ELSE Ref(row1),
                       !.table = IF writeErr THEN probe.table
                                 ELSE CacheQueryTable(probe.table, t, QueryID(t),
                                          req.Property, queryHash, payload,
                                          QueryTTLHours)]

\* DataClient.GetMetadata on the metadata_cache rows `table` at time t
GetMetadataResult(table, t, propertyID, readErr, outcome, payload, writeErr) ==
    LET probe == GetCachedMetadataResult(table, t, propertyID, "metadata", readErr)
        probed == [NoReport EXCEPT !.probed = TRUE, !.table = probe.table,
                                   !.hits = probe.hits, !.misses = probe.misses,
                                   !.readErr = probe.err, !.found = probe.found]
        row1 == MetadataRow(t, propertyID, "metadata", payload, MetadataTTLHours)
    IN
    IF ProbeHit(probe) THEN
        [probed EXCEPT !.response = probe.data, !.hit = TRUE]
    ELSE IF GatewayError(outcome) # "" THEN
        [probed EXCEPT !.err = GatewayError(outcome), !.outcome = outcome,
                       !.gateway = GatewayInvoked(outcome)]
    ELSE
        [probed EXCEPT !.response = payload, !.gateway = TRUE,
                       !.outcome = outcome, !.writeErr = writeErr,
                       !.wrote = ~writeErr,
                       !.written = IF writeErr THEN Nil ELSE Ref(row1),
                       !.table = IF writeErr THEN probe.table
                                 ELSE CacheMetadataTable(probe.table, t, propertyID,
                                          "metadata", payload, MetadataTTLHours)]

\* the EventAnalysis computed from a report
Analysis(payload) == "analysis of " \o payload

----------------------------------------------------------------------------
(* Executor.Execute *)

NoResult == [QueryID |-> 0, PropertyID |-> "", QueryHash |-> NoHash,
             FromCache |-> FALSE, Data |-> NoData, Error |-> ""]

\* applyOverrides that applies nothing
applyOverrides_Nothing(config, overrides) == config

\* Executor.Execute: the (*QueryResult, error) pair, the caller's config
\* (Configs[i]) as the call leaves it, and what RunReport did
ExecuteResult(table, t, i, readErr, row, outcome, payload, writeErr) ==
    LET v == Validated[i]
        c == Converted[i]
        report == RunReportResult(table, t, Deref(c.request), RequestHash[i],
                                  readErr, row, outcome, payload, writeErr)
        envelope == [NoResult EXCEPT !.QueryID = QueryID(t),
                                     !.PropertyID = v.config.PropertyID,
                                     !.QueryHash = ConfigHash[i]]
        none == [NoReport EXCEPT !.table = table]
    IN
    IF v.err # "" THEN
        [result |-> Nil, err |-> "query validation failed", config |-> v.config,
         report |-> none]
    ELSE IF c.err # "" THEN
        [result |-> Nil, err |-> "failed to convert query config to API request",
         config |-> v.config, report |-> none]
    ELSE IF report.err # "" THEN
        [result |-> Ref([envelope EXCEPT !.Error = report.err]), err |-> report.err,
         config |-> v.config, report |-> report]
    ELSE
        [result |-> Ref([envelope EXCEPT !.Data = report.response]), err |-> "",
         config |-> v.config, report |-> report]

----------------------------------------------------------------------------
(* State machine *)

NoCall ==
    [op |-> "none", input |-> 0, subject |-> "", kind |-> "", hash |-> NoHash, at |-> 0,
     found |-> FALSE, readErr |-> FALSE, writeErr |-> FALSE, err |-> "",
     data |-> NoData,
     probed |-> FALSE, hit |-> FALSE, gateway |-> FALSE, wrote |-> FALSE,
     outcome |-> "none", property |-> "", result |-> Nil, deleted |-> 0,
     expires |-> Nil, config |-> Nil, request |-> Nil, entries |-> 0,
     overrides |-> 0]

InitFollowing(followed) ==
    /\ now = 0
    /\ metadata_cache = {}
    /\ query_cache = {}
    /\ total_hits = 0
    /\ total_misses = 0
    /\ last = NoCall
    /\ hashed = {}
    /\ kept = [followed |-> followed, metadata_cache |-> Nil, query_cache |-> Nil]
    /\ template = [Query |-> BaseConfig, UsageCount |-> 0, LastUsed |-> Nil]
    /\ presets = {CachePreset}
    /\ active_preset = CachePreset
    /\ deleted_at = Nil
    /\ reading = Nil

\* the state after construction, with no history kept
Init == InitFollowing({})

\* time passes
AdvanceClock(d) ==
    /\ \/ d = 1 /\ now % SecondsPerHour < MaxSeconds
       \/ d = SecondsPerHour /\ now \div SecondsPerHour < MaxHours
       \/ d = SecondsPerDay /\ now \div SecondsPerDay < MaxDays
    /\ now' = now + d
    /\ last' = [NoCall EXCEPT !.op = "AdvanceClock", !.at = now']
    /\ UNCHANGED <<metadata_cache, query_cache, total_hits, total_misses, hashed,
                   kept,
                   template, presetVars, reading>>

\* CacheClient.CacheMetadata
CacheMetadata(propertyID, cacheType, data, ttlHours, dbErr) ==
    /\ metadata_cache' =
          IF dbErr THEN metadata_cache
          ELSE CacheMetadataTable(metadata_cache, now, propertyID, cacheType,
                                  data, ttlHours)
    /\ Cardinality(metadata_cache') <= MaxRows
    /\ last' = [NoCall EXCEPT !.op = "CacheMetadata", !.subject = propertyID,
                              !.kind = cacheType, !.data = data, !.at = now,
                              !.writeErr = dbErr, !.wrote = ~dbErr]
    /\ kept' = IF dbErr THEN kept
               ELSE Keep(kept, Ref(KeptMetadata(
                        MetadataRow(now, propertyID, cacheType, data, ttlHours))))
    /\ UNCHANGED <<now, query_cache, total_hits, total_misses, hashed,
                   template, presetVars, reading>>

\* CacheClient.GetCachedMetadata
GetCachedMetadata(propertyID, cacheType, dbErr) ==
    \E r \in {GetCachedMetadataResult(metadata_cache, now, propertyID, cacheType, dbErr)} :
    /\ total_hits + total_misses < MaxReads
    /\ metadata_cache' = r.table
    /\ total_hits' = total_hits + r.hits
    /\ total_misses' = total_misses + r.misses
    /\ last' = [NoCall EXCEPT !.op = "GetCachedMetadata", !.subject = propertyID,
                              !.kind = cacheType, !.at = now, !.found = r.found,
                              !.readErr = r.err, !.data = r.data,
                              !.expires = r.expires]
    /\ UNCHANGED <<now, query_cache, hashed, kept,
                   template, presetVars, reading>>

\* GetCachedMetadata by a caller that runs beside the others, up to the
\* test of the expiry: the SELECT returned a row, time.Now() is after its
\* expires_at, and the miss is counted.  rows is what the SELECT saw.
ScanExpiredMetadata(propertyID, cacheType) ==
    \E r \in SelectMetadata(metadata_cache, propertyID, cacheType) :
        /\ reading = Nil
        /\ After(now, r.expires_at)
        /\ total_hits + total_misses < MaxReads
        /\ total_misses' = total_misses + 1
        /\ reading' = Ref([table |-> "metadata_cache", subject |-> propertyID,
                           kind |-> cacheType, hash |-> NoHash,
                           rows |-> SelectMetadata(metadata_cache, propertyID,
                                                   cacheType)])
        /\ last' = [NoCall EXCEPT !.op = "ScanExpiredMetadata",
                                  !.subject = propertyID, !.kind = cacheType,
                                  !.at = now, !.expires = Ref(r.expires_at)]
        /\ UNCHANGED <<now, metadata_cache, query_cache, total_hits, hashed, kept,
                       template, presetVars>>

\* the rest of that call: DELETE FROM metadata_cache WHERE property_id = ?
\* AND cache_type = ?, on the table as it is now, and return (false, nil)
EvictMetadata ==
    /\ reading # Nil
    /\ Deref(reading).table = "metadata_cache"
    /\ metadata_cache' =
          metadata_cache \ SelectMetadata(metadata_cache, Deref(reading).subject,
                                          Deref(reading).kind)
    /\ reading' = Nil
    /\ last' = [NoCall EXCEPT !.op = "EvictMetadata",
                              !.subject = Deref(reading).subject,
                              !.kind = Deref(reading).kind, !.at = now]
    /\ UNCHANGED <<now, query_cache, total_hits, total_misses, hashed, kept,
                   template, presetVars>>

\* GetCachedQuery by a caller that runs beside the others, up to the test of
\* the expiry of the row it scanned
ScanExpiredQuery(queryHash) ==
    \E r \in SelectQuery(query_cache, queryHash) :
        /\ reading = Nil
        /\ QueryExpired(r, now)
        /\ total_hits + total_misses < MaxReads
        /\ total_misses' = total_misses + 1
        /\ reading' = Ref([table |-> "query_cache", subject |-> "", kind |-> "",
                           hash |-> queryHash,
                           rows |-> SelectQuery(query_cache, queryHash)])
        /\ last' = [NoCall EXCEPT !.op = "ScanExpiredQuery", !.hash = queryHash,
                                  !.at = now, !.expires = Ref(r.expires_at)]
        /\ UNCHANGED <<now, metadata_cache, query_cache, total_hits, hashed, kept,
                       template, presetVars>>

\* the rest of that call: DELETE FROM query_cache WHERE query_hash = ?, on
\* the table as it is now, and return (false, nil)
EvictQuery ==
    /\ reading # Nil
    /\ Deref(reading).table = "query_cache"
    /\ query_cache' = query_cache \ SelectQuery(query_cache, Deref(reading).hash)
    /\ reading' = Nil
    /\ last' = [NoCall EXCEPT !.op = "EvictQuery", !.hash = Deref(reading).hash,
                              !.at = now]
    /\ UNCHANGED <<now, metadata_cache, total_hits, total_misses, hashed, kept,
                   template, presetVars>>

\* CacheClient.CacheQuery, with the query id its caller builds
CacheQuery(propertyID, queryHash, resultData, ttlHours, dbErr) ==
    /\ query_cache' =
          IF dbErr THEN query_cache
          ELSE CacheQueryTable(query_cache, now, QueryID(now), propertyID,
                               queryHash, resultData, ttlHours)
    /\ Cardinality(query_cache') <= MaxRows
    /\ last' = [NoCall EXCEPT !.op = "CacheQuery", !.subject = propertyID,
                              !.hash = queryHash, !.data = resultData, !.at = now,
                              !.writeErr = dbErr, !.wrote = ~dbErr]
    /\ kept' = IF dbErr THEN kept
               ELSE Keep(kept, Ref(KeptQuery(
                        QueryRow(now, QueryID(now), propertyID, queryHash,
                                 resultData, ttlHours))))
    /\ UNCHANGED <<now, metadata_cache, total_hits, total_misses, hashed,
                   template, presetVars, reading>>

\* CacheClient.GetCachedQuery
GetCachedQuery(queryHash, dbErr) ==
    \E row \in ScannedRows(query_cache, queryHash) :
        \E r \in {GetCachedQueryResult(query_cache, now, queryHash, dbErr, row)} :
        /\ total_hits + total_misses < MaxReads
        /\ query_cache' = r.table
        /\ total_hits' = total_hits + r.hits
        /\ total_misses' = total_misses + r.misses
        /\ last' = [NoCall EXCEPT !.op = "GetCachedQuery", !.hash = queryHash,
                                  !.at = now, !.found = r.found, !.readErr = r.err,
                                  !.data = r.data, !.property = r.property,
                                  !.expires = r.expires]
        /\ UNCHANGED <<now, metadata_cache, hashed, kept,
                   template, presetVars, reading>>

\* DELETE FROM metadata_cache WHERE expires_at < NOW()
SweepMetadata(table, t) == {r \in table : ~(r.expires_at < t)}

\* a faulty SweepQuery: expires_at <= NOW()
SweepQuery_NonStrict(table, t) ==
    {r \in table : ~(r.expires_at # NoExpiry /\ r.expires_at <= t)}

\* DELETE FROM query_cache WHERE expires_at IS NOT NULL AND expires_at < NOW()
SweepQuery(table, t) == {r \in table : ~(r.expires_at # NoExpiry /\ r.expires_at < t)}

\* CacheClient.CleanupExpiredEntries; failedAt is the statement that fails
\* (0: none)
CleanupExpiredEntries(failedAt) ==
    LET deleted1 == Cardinality(metadata_cache) - Cardinality(SweepMetadata(metadata_cache, now))
        deleted2 == Cardinality(query_cache) - Cardinality(SweepQuery(query_cache, now))
    IN
    /\ metadata_cache' = IF failedAt = 1 THEN metadata_cache
                         ELSE SweepMetadata(metadata_cache, now)
    /\ query_cache' = IF failedAt \in {1, 2} THEN query_cache
                      ELSE SweepQuery(query_cache, now)
    /\ last' = [NoCall EXCEPT !.op = "CleanupExpiredEntries", !.at = now,
                              !.writeErr = (failedAt # 0),
                              !.deleted = CASE failedAt = 1 -> 0
                                            [] failedAt = 2 -> deleted1
                                            [] OTHER -> deleted1 + deleted2]
    /\ UNCHANGED <<now, total_hits, total_misses, hashed, kept,
                   template, presetVars, reading>>

\* preset.IsValidPresetName
IsValidPresetName(name) == name # "" /\ name \in MatchedPresetNames

\* preset.PresetExists: the preset file is there
PresetExists(presetName) == presetName \in presets

\* the cache client of the active preset is the one of CachePreset
\* (cache.NewCacheClient(activePreset.Name) after preset.LoadPreset)
CacheOpened == active_preset = CachePreset /\ PresetExists(CachePreset)

\* preset.CreatePreset
CreatePreset(name, refreshToken) ==
    \E err \in {CASE ~IsValidPresetName(name) -> "invalid preset name"
                  [] refreshToken = "" -> "refresh token is required"
                  [] PresetExists(name) -> "preset already exists"
                  [] OTHER -> ""} :
        /\ presets' = IF err = "" THEN presets \cup {name} ELSE presets
        /\ last' = [NoCall EXCEPT !.op = "CreatePreset", !.subject = name,
                                  !.at = now, !.err = err]
        /\ UNCHANGED <<now, metadata_cache, query_cache, total_hits, total_misses,
                       hashed, kept, template, active_preset, deleted_at, reading>>

\* preset.SetActivePreset, with config.SetActivePreset.  configErr: what
\* fails in the global configuration ("load", "save" or "none")
SetActivePreset(presetName, configErr) ==
    \E err \in {CASE presetName # "" /\ ~IsValidPresetName(presetName) ->
                          "invalid preset name"
                  [] presetName # "" /\ ~PresetExists(presetName) ->
                          "preset does not exist"
                  [] configErr = "load" -> "failed to load config"
                  [] configErr = "save" -> "failed to save config"
                  [] OTHER -> ""} :
        /\ active_preset' = IF err = "" THEN presetName ELSE active_preset
        /\ last' = [NoCall EXCEPT !.op = "SetActivePreset", !.subject = presetName,
                                  !.at = now, !.err = err, !.kind = configErr]
        /\ UNCHANGED <<now, metadata_cache, query_cache, total_hits, total_misses,
                       hashed, kept, template, presets, deleted_at, reading>>

\* preset.DeletePreset: the preset file is removed, the cache file
\* (<name>.db) is not; the errors of config.GetActivePreset and of
\* config.SetActivePreset("") are dropped
DeletePreset(presetName, configErr) ==
    \E err \in {CASE ~IsValidPresetName(presetName) -> "invalid preset name"
                  [] ~PresetExists(presetName) -> "preset does not exist"
                  [] OTHER -> ""} :
        /\ presets' = IF err = "" THEN presets \ {presetName} ELSE presets
        /\ active_preset' =
              IF err = "" /\ configErr = "none" /\ active_preset = presetName
              THEN "" ELSE active_preset
        /\ deleted_at' = IF err = "" /\ presetName = CachePreset THEN Ref(now)
                         ELSE deleted_at
        /\ last' = [NoCall EXCEPT !.op = "DeletePreset", !.subject = presetName,
                                  !.at = now, !.err = err, !.kind = configErr]
        /\ UNCHANGED <<now, metadata_cache, query_cache, total_hits, total_misses,
                       hashed, kept, template, reading>>

\* CacheClient.GetCacheStats.  The second query yields two rows, one count per
\* table, in no stated order; QueryRowContext scans the first of them.
\*   failed: the query on cache_stats fails; scanned: the table whose count
\*   comes first
GetCacheStats(failed, scanned) ==
    /\ last' = [NoCall EXCEPT !.op = "GetCacheStats", !.at = now,
                              !.readErr = failed,
                              !.kind = scanned,
                              !.entries = CASE failed -> 0
                                            [] scanned = "metadata_cache" ->
                                                   Cardinality(metadata_cache)
                                            [] OTHER -> Cardinality(query_cache)]
    /\ UNCHANGED <<now, metadata_cache, query_cache, total_hits, total_misses,
                   hashed, kept, template, presetVars, reading>>

\* the body of Executor.Execute on Configs[i], entered by the call op; o
\* is the index in TemplateOverrides of the overrides of the call, if any
\* reads bounds the accounted cache reads
ExecuteCall(op, o, reads, i, readErr, outcome, payload, writeErr) ==
    \E row \in ScannedRows(query_cache, RequestHash[i]) :
        \E r \in {ExecuteResult(query_cache, now, i, readErr, row, outcome,
                               payload, writeErr)} :
        /\ total_hits + total_misses < reads
        /\ query_cache' = r.report.table
        /\ Cardinality(query_cache') <= MaxRows
        /\ total_hits' = total_hits + r.report.hits
        /\ total_misses' = total_misses + r.report.misses
        /\ last' = [NoCall EXCEPT !.op = op, !.overrides = o, !.input = i,
                                  !.subject = Configs[i].PropertyID,
                                  !.hash = r.report.queryHash, !.at = now,
                                  !.err = r.err, !.data = r.report.response,
                                  !.probed = r.report.probed,
                                  !.found = r.report.found, !.hit = r.report.hit,
                                  !.gateway = r.report.gateway,
                                  !.wrote = r.report.wrote,
                                  !.outcome = r.report.outcome,
                                  !.readErr = r.report.readErr,
                                  !.writeErr = r.report.writeErr,
                                  !.property = r.report.property,
                                  !.result = r.result,
                                  !.config = Ref(r.config),
                                  !.request = r.report.request]
        /\ kept' = IF r.report.written = Nil THEN kept
                   ELSE Keep(kept, Ref(KeptQuery(Deref(r.report.written))))
        /\ UNCHANGED <<now, metadata_cache, hashed, presetVars, reading>>

\* Executor.Execute on Configs[i]
Execute(i, readErr, outcome, payload, writeErr) ==
    /\ ExecuteCall("Execute", 0, MaxReads, i, readErr, outcome, payload, writeErr)
    /\ UNCHANGED template

\* Executor.applyOverrides: a value of another dynamic type than the key's,
\* and a key that is not one of the four, are passed over; the error is
\* always nil
applyOverrides(config, overrides) ==
    LET Has(key, types) ==
            key \in DOMAIN overrides /\ overrides[key].type \in types
    IN
    [config EXCEPT
        !.StartDate = IF Has("start_date", {"string"})
                      THEN overrides["start_date"].value ELSE @,
        !.EndDate = IF Has("end_date", {"string"})
                    THEN overrides["end_date"].value ELSE @,
        !.Limit = IF Has("limit", {"int64", "int"})
                  THEN overrides["limit"].value ELSE @,
        !.Offset = IF Has("offset", {"int64", "int"})
                   THEN overrides["offset"].value ELSE @]

\* Executor.ExecuteTemplate on the template with TemplateOverrides[o]:
\* config := *template.Query, a copy of the struct that shares the slices of
\* the template, which Execute does not write to
ExecuteTemplate(o, readErr, outcome, payload, writeErr) ==
    \E config \in {applyOverrides(template.Query, TemplateOverrides[o])} :
        \E i \in {CHOOSE i \in DOMAIN Configs : Configs[i] = config} :
            /\ template.UsageCount < MaxUsage
            /\ template' = [template EXCEPT !.UsageCount = @ + 1,
                                            !.LastUsed = Ref(now)]
            /\ ExecuteCall("ExecuteTemplate", o, MaxReads, i, readErr, outcome, payload,
                           writeErr)

\* DataClient.GetMetadata; reads bounds the accounted cache reads
GetMetadataCall(reads, propertyID, readErr, outcome, payload, writeErr) ==
    \E r \in {GetMetadataResult(metadata_cache, now, propertyID, readErr, outcome,
                               payload, writeErr)} :
    /\ total_hits + total_misses < reads
    /\ metadata_cache' = r.table
    /\ Cardinality(metadata_cache') <= MaxRows
    /\ total_hits' = total_hits + r.hits
    /\ total_misses' = total_misses + r.misses
    /\ last' = [NoCall EXCEPT !.op = "GetMetadata", !.subject = propertyID,
                              !.kind = "metadata", !.at = now, !.err = r.err,
                              !.data = r.response, !.probed = r.probed,
                              !.found = r.found, !.hit = r.hit,
                              !.gateway = r.gateway,
                              !.wrote = r.wrote, !.outcome = r.outcome,
                              !.readErr = r.readErr, !.writeErr = r.writeErr]
    /\ kept' = IF r.written = Nil THEN kept
               ELSE Keep(kept, Ref(KeptMetadata(Deref(r.written))))
    /\ UNCHANGED <<now, query_cache, hashed,
                   template, presetVars, reading>>

GetMetadata(propertyID, readErr, outcome, payload, writeErr) ==
    GetMetadataCall(MaxReads, propertyID, readErr, outcome, payload, writeErr)

\* DataClient.AnalyzeEvents on both tables at time t.  mReadErr, mWriteErr:
\* the metadata_cache statement fails; the rest is handed to RunReport.
AnalyzeEventsResult(mtable, qtable, t, propertyID, days, mReadErr, qReadErr, row, outcome, payload, qWriteErr, mWriteErr) ==
    LET cacheKey == EventsCacheKey(days)
        probe == GetCachedMetadataResult(mtable, t, propertyID, cacheKey, mReadErr)
        report == RunReportResult(qtable, t, EventsRequest(propertyID, days),
                                  EventsHash[propertyID, days], qReadErr, row,
                                  outcome, payload, qWriteErr)
        early == [NoReport EXCEPT !.table = mtable]
        probed == [early EXCEPT !.probed = TRUE, !.table = probe.table,
                                !.hits = probe.hits, !.misses = probe.misses,
                                !.readErr = probe.err, !.found = probe.found]
        row1 == MetadataRow(t, propertyID, cacheKey, Analysis(report.response),
                            EventsTTLHours)
    IN
    IF days <= 0 \/ days > 365 THEN
        [meta |-> [early EXCEPT !.err = "days must be between 1 and 365"],
         qtable |-> qtable, qwritten |-> Nil]
    ELSE IF ProbeHit(probe) THEN
        [meta |-> [probed EXCEPT !.response = probe.data, !.hit = TRUE],
         qtable |-> qtable, qwritten |-> Nil]
    ELSE IF report.err # "" THEN
        [meta |-> [probed EXCEPT !.err = "failed to run event analysis report",
                                 !.outcome = report.outcome,
                                 !.gateway = report.gateway,
                                 !.hits = probe.hits + report.hits,
                                 !.misses = probe.misses + report.misses],
         qtable |-> report.table, qwritten |-> report.written]
    ELSE
        [meta |-> [probed EXCEPT !.response = Analysis(report.response),
                                 !.outcome = report.outcome,
                                 !.gateway = report.gateway,
                                 !.hits = probe.hits + report.hits,
                                 !.misses = probe.misses + report.misses,
                                 !.writeErr = mWriteErr, !.wrote = ~mWriteErr,
                                 !.written = IF mWriteErr THEN Nil ELSE Ref(row1),
                                 !.table = IF mWriteErr THEN probe.table
                                           ELSE CacheMetadataTable(probe.table, t,
                                                    propertyID, cacheKey,
                                                    Analysis(report.response),
                                                    EventsTTLHours)],
         qtable |-> report.table, qwritten |-> report.written]

\* DataClient.AnalyzeEvents
\* DataClient.AnalyzeEvents; reads bounds the accounted cache reads
AnalyzeEventsCall(reads, propertyID, days, mReadErr, qReadErr, outcome, payload, qWriteErr, mWriteErr) ==
    \E row \in ScannedRows(query_cache, EventsHash[propertyID, days]) :
        \E r \in {AnalyzeEventsResult(metadata_cache, query_cache, now, propertyID,
                                     days, mReadErr, qReadErr, row, outcome,
                                     payload, qWriteErr, mWriteErr)} :
        /\ total_hits + total_misses + 1 < reads
        /\ metadata_cache' = r.meta.table
        /\ query_cache' = r.qtable
        /\ Cardinality(metadata_cache') <= MaxRows
        /\ Cardinality(query_cache') <= MaxRows
        /\ total_hits' = total_hits + r.meta.hits
        /\ total_misses' = total_misses + r.meta.misses
        /\ last' = [NoCall EXCEPT !.op = "AnalyzeEvents", !.subject = propertyID,
                                  !.kind = EventsCacheKey(days), !.at = now,
                                  !.err = r.meta.err, !.data = r.meta.response,
                                  !.probed = r.meta.probed,
                                  !.found = r.meta.found, !.hit = r.meta.hit,
                                  !.gateway = r.meta.gateway,
                                  !.wrote = r.meta.wrote,
                                  !.outcome = r.meta.outcome,
                                  !.readErr = r.meta.readErr,
                                  !.writeErr = r.meta.writeErr]
        /\ kept' = Keep(Keep(kept, IF r.qwritten = Nil THEN Nil
                                   ELSE Ref(KeptQuery(Deref(r.qwritten)))),
                        IF r.meta.written = Nil THEN Nil
                        ELSE Ref(KeptMetadata(Deref(r.meta.written))))
        /\ UNCHANGED <<now, hashed,
                   template, presetVars, reading>>

AnalyzeEvents(propertyID, days, mReadErr, qReadErr, outcome, payload, qWriteErr, mWriteErr) ==
    AnalyzeEventsCall(MaxReads, propertyID, days, mReadErr, qReadErr, outcome,
                      payload, qWriteErr, mWriteErr)

\* the two digests Execute computes for a configuration it accepts:
\* QueryResult.QueryHash and the key RunReport probes the cache with
HashQuery(config) ==
    LET v == validateQuery(config)
        c == configToRequest(v.config)
    IN
    [queryHash |-> Executor_generateQueryHash(v.config),
     cacheKey |-> IF v.err # "" \/ c.err # "" THEN NoHash
                  ELSE DataClient_generateQueryHash(DefaultedRequest(Deref(c.request)))]

HashTable == [c \in HashConfigs |-> HashQuery(c)]

\* Executor.generateQueryHash and DataClient.generateQueryHash on one
\* configuration, as Execute reaches them
GenerateQueryHash(config) ==
    /\ validateQuery(config).err = ""
    /\ hashed' = hashed \cup {[config |-> config, at |-> now,
                               queryHash |-> HashTable[config].queryHash,
                               cacheKey |-> HashTable[config].cacheKey]}
    /\ hashed' # hashed
    /\ Cardinality(hashed') <= MaxHashed
    /\ last' = [NoCall EXCEPT !.op = "generateQueryHash",
                              !.subject = config.PropertyID, !.at = now,
                              !.hash = HashTable[config].cacheKey]
    /\ UNCHANGED <<now, metadata_cache, query_cache, total_hits, total_misses, kept,
                   template, presetVars, reading>>

----------------------------------------------------------------------------
(* Specifications *)

\* what the gateway can answer: a report only when the round trip succeeds
GatewayAnswers ==
    {[outcome |-> "ok", payload |-> p] : p \in Payloads} \cup
    {[outcome |-> o, payload |-> NoData] : o \in GatewayOutcomes \ {"ok"}}

\* the query path: the executor over one preset's cache
Next ==
    \/ \E d \in {1, SecondsPerHour} : AdvanceClock(d)
    \/ \E i \in QueryInputs, g \in GatewayAnswers, readErr, writeErr \in BOOLEAN :
            Execute(i, readErr, g.outcome, g.payload, writeErr)
    \/ \E failedAt \in 0..2 : CleanupExpiredEntries(failedAt)

Spec == Init /\ [][Next]_vars

\* the data client asked for one report and for one property's metadata
NextApi ==
    \/ \E d \in {1, SecondsPerHour} : AdvanceClock(d)
    \/ \E g \in GatewayAnswers, readErr, writeErr \in BOOLEAN :
            Execute(1, readErr, g.outcome, g.payload, writeErr)
    \/ \E p \in MetaProperties, g \in GatewayAnswers, readErr, writeErr \in BOOLEAN :
            GetMetadata(p, readErr, g.outcome, g.payload, writeErr)

SpecApi == Init /\ [][NextApi]_vars

\* the metadata path of the data client
NextMeta ==
    \/ \E d \in {1, SecondsPerHour} : AdvanceClock(d)
    \/ \E p \in MetaProperties, g \in GatewayAnswers, readErr, writeErr \in BOOLEAN :
            GetMetadata(p, readErr, g.outcome, g.payload, writeErr)
    \/ \E p \in MetaProperties, days \in Days, g \in GatewayAnswers,
          mReadErr, qReadErr, qWriteErr, mWriteErr \in BOOLEAN :
            AnalyzeEvents(p, days, mReadErr, qReadErr, g.outcome, g.payload,
                          qWriteErr, mWriteErr)

SpecMeta == Init /\ [][NextMeta]_vars

\* the cache client called directly, on both tables
NextStore ==
    \/ \E d \in {1, SecondsPerHour} : AdvanceClock(d)
    \/ \E p \in MetaProperties, k \in CacheTypes, data \in Payloads, ttl \in TTLHours,
          dbErr \in BOOLEAN : CacheMetadata(p, k, data, ttl, dbErr)
    \/ \E p \in MetaProperties, k \in CacheTypes, dbErr \in BOOLEAN :
            GetCachedMetadata(p, k, dbErr)
    \/ \E p \in MetaProperties, h \in StoreHashes, data \in Payloads, ttl \in TTLHours,
          dbErr \in BOOLEAN : CacheQuery(p, h, data, ttl, dbErr)
    \/ \E h \in StoreHashes, dbErr \in BOOLEAN : GetCachedQuery(h, dbErr)
    \/ \E failedAt \in 0..2 : CleanupExpiredEntries(failedAt)

SpecStore == Init /\ [][NextStore]_vars

\* the cache client called directly on query_cache, the writes under one
\* digest followed
NextQuery ==
    \/ \E d \in {1, SecondsPerHour} : AdvanceClock(d)
    \/ \E p \in MetaProperties, h \in StoreHashes, data \in Payloads, ttl \in TTLHours,
          dbErr \in BOOLEAN : CacheQuery(p, h, data, ttl, dbErr)
    \/ \E h \in StoreHashes, dbErr \in BOOLEAN : GetCachedQuery(h, dbErr)
    \/ \E failedAt \in 0..2 : CleanupExpiredEntries(failedAt)

SpecQuery == InitFollowing({FollowedQuery}) /\ [][NextQuery]_vars

\* the cache client called directly with one key of each table, the writes
\* under both followed
NextTTL ==
    \/ \E d \in {1, SecondsPerHour} : AdvanceClock(d)
    \/ \E data \in Payloads, ttl \in TTLHours, dbErr \in BOOLEAN :
            CacheMetadata(FollowedMetadata[1], FollowedMetadata[2], data, ttl, dbErr)
    \/ \E dbErr \in BOOLEAN :
            GetCachedMetadata(FollowedMetadata[1], FollowedMetadata[2], dbErr)
    \/ \E data \in Payloads, ttl \in TTLHours, dbErr \in BOOLEAN :
            CacheQuery(FollowedMetadata[1], FollowedQuery[1], data, ttl, dbErr)
    \/ \E dbErr \in BOOLEAN : GetCachedQuery(FollowedQuery[1], dbErr)
    \/ \E failedAt \in 0..2 : CleanupExpiredEntries(failedAt)

SpecTTL == InitFollowing({FollowedMetadata, FollowedQuery}) /\ [][NextTTL]_vars

\* the executor given every configuration, over a gateway that answers or
\* refuses and a cache that works
ExecAnswers ==
    {[outcome |-> "ok", payload |-> "report A"],
     [outcome |-> "bad_status", payload |-> NoData],
     [outcome |-> "auth_error", payload |-> NoData]}

\* the data client over a day: metadata, event analyses of two properties
\* and one report, the cache statements succeeding
NextExpiry ==
    \/ \E d \in {1, SecondsPerHour, SecondsPerDay} : AdvanceClock(d)
    \/ \E p \in MetaProperties, g \in ExecAnswers :
            GetMetadataCall(MaxLongReads, p, FALSE, g.outcome, g.payload, FALSE)
    \/ \E p \in Properties, days \in Days, g \in ExecAnswers :
            AnalyzeEventsCall(MaxLongReads, p, days, FALSE, FALSE, g.outcome,
                              g.payload, FALSE, FALSE)
    \/ \E g \in ExecAnswers :
            /\ ExecuteCall("Execute", 0, MaxLongReads, 1, FALSE, g.outcome,
                           g.payload, FALSE)
            /\ UNCHANGED template

SpecExpiry == Init /\ [][NextExpiry]_vars

\* presets created, activated and deleted, and the cache of the preset
\* CachePreset used while it is the active one
NextPreset ==
    \/ \E d \in {1, SecondsPerHour} : AdvanceClock(d)
    \/ \E name \in PresetNames, refreshToken \in {"", "token"} :
            CreatePreset(name, refreshToken)
    \/ \E name \in PresetNames, configErr \in {"none", "load", "save"} :
            SetActivePreset(name, configErr)
    \/ \E name \in PresetNames, configErr \in {"none", "load", "save"} :
            DeletePreset(name, configErr)
    \/ \E data \in Payloads, ttl \in TTLHours :
            /\ CacheOpened
            /\ CacheMetadata(FollowedMetadata[1], FollowedMetadata[2], data, ttl, FALSE)
    \/ /\ CacheOpened
       /\ GetCachedMetadata(FollowedMetadata[1], FollowedMetadata[2], FALSE)

SpecPreset == Init /\ [][NextPreset]_vars

\* callers of the cache client that run beside each other on one key per
\* table: whole writes and reads, and one read taken statement by statement
NextRace ==
    \/ \E d \in {1, SecondsPerHour} : AdvanceClock(d)
    \/ \E data \in Payloads, ttl \in TTLHours :
            CacheMetadata(FollowedMetadata[1], FollowedMetadata[2], data, ttl, FALSE)
    \/ GetCachedMetadata(FollowedMetadata[1], FollowedMetadata[2], FALSE)
    \/ ScanExpiredMetadata(FollowedMetadata[1], FollowedMetadata[2])
    \/ EvictMetadata
    \/ \E data \in Payloads, ttl \in TTLHours :
            CacheQuery(FollowedMetadata[1], FollowedQuery[1], data, ttl, FALSE)
    \/ GetCachedQuery(FollowedQuery[1], FALSE)
    \/ ScanExpiredQuery(FollowedQuery[1])
    \/ EvictQuery

SpecRace == Init /\ [][NextRace]_vars

\* a template run with overrides
NextTemplate ==
    \/ \E d \in {1, SecondsPerHour} : AdvanceClock(d)
    \/ \E o \in DOMAIN TemplateOverrides, g \in ExecAnswers :
            ExecuteTemplate(o, FALSE, g.outcome, g.payload, FALSE)

SpecTemplate == Init /\ [][NextTemplate]_vars

NextExec ==
    \/ \E d \in {1, SecondsPerHour} : AdvanceClock(d)
    \/ \E i \in DOMAIN Configs, g \in ExecAnswers :
            Execute(i, FALSE, g.outcome, g.payload, FALSE)

SpecExec == Init /\ [][NextExec]_vars

\* the cache client called directly on one digest of query_cache, with and
\* without a TTL (ttlHours nil)
NextPersist ==
    \/ \E d \in {1, SecondsPerHour} : AdvanceClock(d)
    \/ \E data \in Payloads, ttl \in TTLHours \cup {NoExpiry}, dbErr \in BOOLEAN :
            CacheQuery(FollowedMetadata[1], FollowedQuery[1], data, ttl, dbErr)
    \/ \E dbErr \in BOOLEAN : GetCachedQuery(FollowedQuery[1], dbErr)
    \/ \E failedAt \in 0..2 : CleanupExpiredEntries(failedAt)

SpecPersist == InitFollowing({FollowedQuery}) /\ [][NextPersist]_vars

\* the cache client called directly with one key of each table, and asked
\* for its statistics
NextStats ==
    \/ \E d \in {1, SecondsPerHour} : AdvanceClock(d)
    \/ \E data \in Payloads, ttl \in TTLHours, dbErr \in BOOLEAN :
            CacheMetadata(FollowedMetadata[1], FollowedMetadata[2], data, ttl, dbErr)
    \/ \E dbErr \in BOOLEAN :
            GetCachedMetadata(FollowedMetadata[1], FollowedMetadata[2], dbErr)
    \/ \E data \in Payloads, ttl \in TTLHours, dbErr \in BOOLEAN :
            CacheQuery(FollowedMetadata[1], FollowedQuery[1], data, ttl, dbErr)
    \/ \E dbErr \in BOOLEAN : GetCachedQuery(FollowedQuery[1], dbErr)
    \/ \E failedAt \in 0..2 : CleanupExpiredEntries(failedAt)
    \/ \E failed \in BOOLEAN, scanned \in {"metadata_cache", "query_cache"} :
            GetCacheStats(failed, scanned)

SpecStats == Init /\ [][NextStats]_vars

\* digests computed for configurations, at different times
NextHash ==
    \/ \E d \in {1, SecondsPerHour} : AdvanceClock(d)
    \/ \E c \in HashConfigs : GenerateQueryHash(c)

SpecHash == Init /\ [][NextHash]_vars

----------------------------------------------------------------------------
(* Properties of the cache client: C1, C6, C7, C8 *)

\* the stored expiry e is earlier than time t
Earlier(e, t) == e # NoExpiry /\ e < t

\* C1: GetCachedMetadata and GetCachedQuery never report found = true for an
\* entry whose stored expiry is earlier than the current time: a read that
\* scans such an entry reports a miss (found = false, no error), and what a
\* read reports as found is the data of a stored row of that key whose expiry
\* is not earlier than the time of the read.
C1_ExpiredNeverFound ==
    last.op \in {"GetCachedMetadata", "GetCachedQuery"} =>
        /\ (last.expires # Nil /\ Earlier(Deref(last.expires), last.at)) =>
               (~last.found /\ ~last.readErr)
        /\ (last.op = "GetCachedMetadata" /\ last.found) =>
               \E r \in SelectMetadata(metadata_cache, last.subject, last.kind) :
                   r.data = last.data /\ ~Earlier(r.expires_at, last.at)
        /\ (last.op = "GetCachedQuery" /\ last.found) =>
               \E r \in SelectQuery(query_cache, last.hash) :
                   r.result_data = last.data /\ ~Earlier(r.expires_at, last.at)

\* a read has scanned an entry whose expiry is in the past and reported a miss
C1_ExpiredRead ==
    /\ last.op = "GetCachedMetadata"
    /\ last.expires # Nil
    /\ Earlier(Deref(last.expires), last.at)
    /\ ~last.found

\* C6: once a write for digest D has returned successfully, every later
\* read for D made before the entry's expiry returns a hit with the payload
\* of the latest such write, whatever writes for other digests happen in
\* between.  (kept.query_cache is the latest entry written under the
\* followed digest.)
C6_WriteVisibleUntilExpiry ==
    (/\ last.op = "GetCachedQuery"
     /\ ~last.readErr
     /\ kept.query_cache # Nil
     /\ Deref(kept.query_cache).key = <<last.hash>>
     /\ last.at < Deref(kept.query_cache).expires_at) =>
        (last.found /\ last.data = Deref(kept.query_cache).data)

\* C7: metadata entries are keyed by (subject, kind): a write for (s, k2)
\* leaves every unexpired entry for (s, k1), k1 # k2, in the table unchanged.
C7_KindsAreIndependent ==
    [][last'.op = "CacheMetadata" =>
          \A r \in metadata_cache :
              (/\ r.property_id = last'.subject
               /\ r.cache_type # last'.kind
               /\ ~After(now, r.expires_at)) => r \in metadata_cache']_vars

\* what C8 says of a read of `key` that returned (found, data) at time `at`
\* and left `rows` behind for the key, the latest entry written under the key
\* being `entry`
ReadHonoursTTL(entry, at, found, data, rows) ==
    /\ at < entry.expires_at => (found /\ data = entry.data)
    /\ at > entry.expires_at => (~found /\ rows = {})

\* C8: for an entry written with a TTL of H hours, a read of its key made
\* before H hours have elapsed returns a hit with the payload, and a read
\* made after H hours have elapsed returns a miss and leaves no entry for the
\* key behind.
C8_ReadsHonourTTL ==
    /\ (/\ last.op = "GetCachedMetadata"
        /\ ~last.readErr
        /\ kept.metadata_cache # Nil
        /\ Deref(kept.metadata_cache).key = <<last.subject, last.kind>>) =>
           ReadHonoursTTL(Deref(kept.metadata_cache), last.at, last.found, last.data,
                          SelectMetadata(metadata_cache, last.subject, last.kind))
    /\ (/\ last.op = "GetCachedQuery"
        /\ ~last.readErr
        /\ kept.query_cache # Nil
        /\ Deref(kept.query_cache).key = <<last.hash>>) =>
           ReadHonoursTTL(Deref(kept.query_cache), last.at, last.found, last.data,
                          SelectQuery(query_cache, last.hash))

----------------------------------------------------------------------------
(* Properties of the data client and the executor: C2, C3, C4, C5 *)

\* C2: when the cache probe of a call is a hit, Execute (through RunReport)
\* and GetMetadata return the stored payload, and the gateway is not invoked
\* during that call.
C2_HitServedFromCache ==
    (last.op \in {"Execute", "GetMetadata"} /\ last.found /\ ~last.readErr) =>
        /\ ~last.gateway
        /\ last.outcome = "none"
        /\ last.err = ""
        /\ last.op = "Execute" =>
               /\ \E r \in SelectQuery(query_cache, last.hash) :
                      r.result_data = last.data
               /\ last.result # Nil
               /\ Deref(last.result).Data = last.data
        /\ last.op = "GetMetadata" =>
               \E r \in SelectMetadata(metadata_cache, last.subject, "metadata") :
                   r.data = last.data

\* Execute has been answered from the cache
C2_ServedFromCache ==
    /\ last.op = "Execute"
    /\ last.found
    /\ last.data \in Payloads
    /\ ~last.gateway

\* C3: Execute adds a row to query_cache only when the gateway returned a
\* complete successful response, and the row holds that response under the
\* digest of the request; when the gateway call fails, is cancelled, returns
\* a non-success status or a body that cannot be decoded, no row is added
\* for the digest and Execute returns a Result carrying the error text
\* together with the error.
C3_NoEntryForFailedFetch ==
    [][last'.op = "Execute" =>
          /\ (query_cache' \ query_cache # {}) =>
                 /\ last'.outcome = "ok"
                 /\ \A r \in query_cache' \ query_cache :
                        r.query_hash = last'.hash /\ r.result_data = last'.data
          /\ (last'.outcome \in GatewayOutcomes \ {"ok"}) =>
                 /\ SelectQuery(query_cache', last'.hash) \subseteq
                        SelectQuery(query_cache, last'.hash)
                 /\ last'.err # ""
                 /\ last'.result # Nil
                 /\ Deref(last'.result).Error = last'.err
                 /\ Deref(last'.result).Data = NoData]_vars

\* the gateway's body could not be decoded: Execute has returned a Result
\* with the error, and the cache holds nothing for the digest
C3_FailedFetch ==
    /\ last.op = "Execute"
    /\ last.outcome = "decode_error"
    /\ last.result # Nil
    /\ Deref(last.result).Error # ""
    /\ SelectQuery(query_cache, last.hash) = {}

\* C4: an error of the cache read or of the cache write is treated as a
\* miss: Execute (through RunReport) and GetMetadata go on to the gateway
\* after a failed read, return no error but the gateway's, and return the
\* gateway's payload without error whenever the gateway succeeds.
C4_CacheErrorsAreMisses ==
    last.op \in {"Execute", "GetMetadata"} =>
        /\ last.readErr => (~last.hit /\ last.outcome # "none")
        /\ last.outcome = "ok" => (last.err = "" /\ last.data \in Payloads)
        /\ last.err # "" =>
               /\ last.outcome \in GatewayOutcomes \ {"ok"}
               /\ last.err = GatewayError(last.outcome)

\* the cache read and the cache write both failed and the call succeeded
C4_CacheDown ==
    /\ last.op = "GetMetadata"
    /\ last.readErr
    /\ last.writeErr
    /\ last.outcome = "ok"
    /\ last.err = ""
    /\ last.data \in Payloads

\* C5: a query result cached for one subject is never returned as a hit for
\* a request on another subject: the row a hit of Execute is served from was
\* stored for the property the request names.
C5_NoHitAcrossSubjects ==
    (last.op = "Execute" /\ last.hit) => last.property = last.subject

----------------------------------------------------------------------------
(* Properties of the digests: C9, C10 *)

\* the query fields of a configuration
QueryFields(c) ==
    <<c.PropertyID, c.Dimensions, c.Metrics, c.StartDate, c.EndDate, c.Limit,
      c.Offset, c.Filters, c.OrderBy>>

\* C9: the digest of a query depends only on its query fields: two
\* configurations equal in all of them (they differ at most in the display
\* name and the creation and update timestamps), hashed at any two times,
\* have the same digests.
C9_DigestOfQueryFieldsOnly ==
    \A a, b \in hashed :
        QueryFields(a.config) = QueryFields(b.config) =>
            (a.queryHash = b.queryHash /\ a.cacheKey = b.cacheKey)

\* records a and b differ, and only in the fields named
DiffersOnlyIn(a, b, fields) ==
    a # b /\ \A f \in DOMAIN a \ fields : a[f] = b[f]

\* t is s in another order
Reordered(s, t) ==
    /\ s # t
    /\ Len(s) = Len(t)
    /\ \E p \in Permutations(1..Len(s)) : \A i \in 1..Len(s) : t[i] = s[p[i]]

\* the fields that hold the value of a filter of a type
ValueFields(type) ==
    CASE type = "string" -> {"StringValue"}
      [] type = "numeric" -> {"NumericValue"}
      [] type = "between" -> {"BetweenFrom", "BetweenTo"}
      [] type = "in_list" -> {"InListValues"}
      [] OTHER -> {}

\* filter lists that differ in the value of one filter
OneFilterValue(fs, gs) ==
    /\ Len(fs) = Len(gs)
    /\ \E k \in 1..Len(fs) :
           /\ \A j \in 1..Len(fs) : j # k => fs[j] = gs[j]
           /\ DiffersOnlyIn(fs[k], gs[k], ValueFields(fs[k].Type))

\* configurations that differ only in the order of their dimensions, the
\* order of their metrics, one filter value, or the date range
DiffersInOneWay(c, d) ==
    \/ DiffersOnlyIn(c, d, {"Dimensions"}) /\ Reordered(c.Dimensions, d.Dimensions)
    \/ DiffersOnlyIn(c, d, {"Metrics"}) /\ Reordered(c.Metrics, d.Metrics)
    \/ DiffersOnlyIn(c, d, {"Filters"}) /\ OneFilterValue(c.Filters, d.Filters)
    \/ DiffersOnlyIn(c, d, {"StartDate", "EndDate"})

\* a probe with digest `key` of a cache that holds one live row, stored under
\* digest `stored`, is a hit
ServedAs(stored, key, t) ==
    LET table == {QueryRow(t, QueryID(t), "123", stored, "report A", QueryTTLHours)}
    IN \E row \in ScannedRows(table, key) :
           GetCachedQueryResult(table, t, key, FALSE, row).found

\* C10: two configurations that differ only in the order of their
\* dimensions, the order of their metrics, one filter value or the date range
\* have different cache digests, so a result cached for one is not served as
\* a hit for the other.
C10_DigestSensitive ==
    \A a, b \in hashed :
        DiffersInOneWay(a.config, b.config) =>
            /\ a.cacheKey # b.cacheKey
            /\ ~ServedAs(a.cacheKey, b.cacheKey, now)

\* the digests of two configurations that differ in one numeric filter value
\* have been computed
C10_TwoFilterValues ==
    \E a, b \in hashed :
        /\ DiffersOnlyIn(a.config, b.config, {"Filters"})
        /\ OneFilterValue(a.config.Filters, b.config.Filters)
        /\ a.config.Filters[1].Type = "numeric"
        /\ a.cacheKey # b.cacheKey

----------------------------------------------------------------------------
(* Properties of validation: C11, C12, C13 *)

\* the call was refused by validateQuery or by configToRequest
Rejected(call) ==
    /\ call.op = "Execute"
    /\ call.err \in {"query validation failed",
                     "failed to convert query config to API request"}

\* C11: when Execute rejects a configuration in validation or in filter
\* translation it returns an error and no Result, and has no side effect: the
\* caller's configuration is as it was before the call (its limit included),
\* the cache is neither read nor written, the hit and miss counters are as
\* they were and the gateway is not invoked.
C11_RejectionHasNoSideEffect ==
    [][Rejected(last') =>
          /\ last'.result = Nil
          /\ Deref(last'.config) = Configs[last'.input]
          /\ ~last'.probed
          /\ ~last'.wrote
          /\ ~last'.gateway
          /\ last'.request = Nil
          /\ query_cache' = query_cache
          /\ metadata_cache' = metadata_cache
          /\ total_hits' = total_hits
          /\ total_misses' = total_misses]_vars

\* C12: validation normalises paging: a limit of 0 or less is replaced by
\* 10000 with no error, a limit above 250000 is rejected, a negative offset is
\* rejected, and every request that reaches the gateway has a limit between 1
\* and 250000 and an offset of at least 0.
C12_PagingNormalised ==
    /\ last.op = "Execute" =>
          LET c == Configs[last.input]
              v == Validated[last.input]
          IN
          /\ c.Limit > MaxLimit =>
                 (last.err = "query validation failed" /\ last.result = Nil)
          /\ c.Offset < 0 =>
                 (last.err = "query validation failed" /\ last.result = Nil)
          /\ c.Limit <= 0 =>
                 /\ v.err # "limit cannot exceed 250,000 rows"
                 /\ v.err = validateQuery([c EXCEPT !.Limit = DefaultLimit]).err
                 /\ v.err = "" => Deref(last.config).Limit = DefaultLimit
          /\ last.request # Nil =>
                 /\ Deref(last.request).Limit >= 1
                 /\ Deref(last.request).Limit <= MaxLimit
                 /\ Deref(last.request).Offset >= 0
                 /\ c.Limit <= 0 => Deref(last.request).Limit = DefaultLimit
                 /\ c.Limit > 0 => Deref(last.request).Limit = c.Limit
    /\ \A p \in Properties, d \in Days :
          LET r == DefaultedRequest(EventsRequest(p, d)) IN
          r.Limit >= 1 /\ r.Limit <= MaxLimit /\ r.Offset >= 0

\* a configuration with a negative limit has reached the gateway with the
\* default limit
C12_NegativeLimitDefaulted ==
    /\ last.op = "Execute"
    /\ Configs[last.input].Limit < 0
    /\ last.gateway
    /\ last.request # Nil
    /\ Deref(last.request).Limit = DefaultLimit
    /\ Deref(last.config).Limit = DefaultLimit

\* a date token that is an ISO date or a relative token
DateToken(date) == date # "" /\ (ParsesAsDate(date) \/ isRelativeDate(date))

\* C13: validation accepts a configuration only if its property id is not
\* empty, its start and end date tokens are both non-empty and each an ISO
\* date or a relative token, and it has at least one dimension or metric;
\* Execute returns a validation error for every configuration that breaks one
\* of these conditions.
C13_MalformedIsRejected ==
    last.op = "Execute" =>
        LET c == Configs[last.input] IN
        (\/ c.PropertyID = ""
         \/ ~DateToken(c.StartDate)
         \/ ~DateToken(c.EndDate)
         \/ (Len(c.Dimensions) = 0 /\ Len(c.Metrics) = 0)) =>
            /\ last.err = "query validation failed"
            /\ last.result = Nil
            /\ ~last.gateway

----------------------------------------------------------------------------
(* Properties of filter and order-by translation: C14 to C18 *)

\* the payloads of an api.Filter that are populated
Populated(f) ==
    {k \in {"StringFilter", "NumericFilter", "BetweenFilter", "InListFilter"} :
        f[k] # Nil}

\* the payload a filter of the given type compiles to
PayloadOf(type) ==
    CASE type = "string" -> "StringFilter"
      [] type = "numeric" -> "NumericFilter"
      [] type = "between" -> "BetweenFilter"
      [] type = "in_list" -> "InListFilter"
      [] OTHER -> "none"

\* expression e is a single Filter leaf
IsLeaf(e) ==
    /\ e.Filter # Nil
    /\ e.AndGroup = Nil
    /\ e.OrGroup = Nil
    /\ e.NotExpression = Nil

\* expression e is the Filter leaf of filter f
LeafOf(e, f) ==
    /\ IsLeaf(e)
    /\ Deref(e.Filter).FieldName = f.FieldName
    /\ Populated(Deref(e.Filter)) = {PayloadOf(f.Type)}

\* the request of the last call was posted to the gateway
Posted == last.op = "Execute" /\ last.request # Nil

\* the filters of the configuration of the last call
PostedFilters == Configs[last.input].Filters

\* the leaves of the filter expression of the posted request, in order
PostedLeaves ==
    LET e == Deref(last.request).DimensionFilter IN
    IF e = Nil THEN <<>>
    ELSE IF Deref(e).AndGroup # Nil THEN Deref(Deref(e).AndGroup)
    ELSE << Deref(e) >>

\* C14: filter compilation has a fixed shape: no filters give no filter
\* expression, one filter gives a single Filter leaf, n >= 2 filters give one
\* AndGroup with exactly n leaf children in the order of the input; no
\* OrGroup, Not node or nested group is emitted.
C14_FilterShape ==
    Posted =>
        LET e == Deref(last.request).DimensionFilter
            n == Len(PostedFilters)
        IN
        /\ n = 0 => e = Nil
        /\ n = 1 => (e # Nil /\ LeafOf(Deref(e), PostedFilters[1]))
        /\ n >= 2 =>
               /\ e # Nil
               /\ Deref(e).Filter = Nil
               /\ Deref(e).OrGroup = Nil
               /\ Deref(e).NotExpression = Nil
               /\ Deref(e).AndGroup # Nil
               /\ Len(Deref(Deref(e).AndGroup)) = n
               /\ \A k \in 1..n :
                      LeafOf(Deref(Deref(e).AndGroup)[k], PostedFilters[k])

\* a request with an AndGroup of three leaves has been posted
C14_ThreeFilters ==
    /\ Posted
    /\ Len(PostedFilters) = 3
    /\ Deref(last.request).DimensionFilter # Nil
    /\ Deref(Deref(last.request).DimensionFilter).AndGroup # Nil
    /\ Len(PostedLeaves) = 3

\* the decimal writing of the float64 values of the inputs (in tenths)
Written ==
    (-55 :> "-5.5") @@ (-50 :> "-5") @@ (0 :> "0") @@ (50 :> "5") @@
    (55 :> "5.5") @@ (60 :> "6") @@ (75 :> "7.5")

\* token is the numeric token of value v: exactly one form is populated, the
\* integer form when v is whole
TokenOf(token, v) ==
    IF v % 10 = 0
    THEN token.Int64Value = Written[v] /\ token.DoubleValue = ""
    ELSE token.Int64Value = "" /\ token.DoubleValue = Written[v]

\* C15: the numeric token compiled for the value of a numeric filter and for
\* each bound of a between filter has exactly one of its integer form and its
\* decimal form populated: the integer form when the value equals its
\* truncation to an integer (5.0 gives "5"), the decimal form otherwise (5.5
\* gives "5.5").
C15_NumericToken ==
    (Posted /\ Len(PostedLeaves) = Len(PostedFilters)) =>
        \A k \in 1..Len(PostedFilters) :
            LET f == PostedFilters[k]
                leaf == Deref(PostedLeaves[k].Filter)
            IN
            /\ f.Type = "numeric" =>
                   /\ leaf.NumericFilter # Nil
                   /\ TokenOf(Deref(leaf.NumericFilter).Value, f.NumericValue)
            /\ f.Type = "between" =>
                   /\ leaf.BetweenFilter # Nil
                   /\ TokenOf(Deref(leaf.BetweenFilter).FromValue, f.BetweenFrom)
                   /\ TokenOf(Deref(leaf.BetweenFilter).ToValue, f.BetweenTo)

\* a between filter from -5.5 to 6 has been posted
C15_BetweenPosted ==
    /\ Posted
    /\ Len(PostedFilters) = 1
    /\ PostedFilters[1].Type = "between"
    /\ PostedFilters[1].BetweenFrom = -55
    /\ PostedFilters[1].BetweenTo = 60
    /\ Len(PostedLeaves) = 1
    /\ Deref(Deref(PostedLeaves[1].Filter).BetweenFilter).FromValue.DoubleValue = "-5.5"
    /\ Deref(Deref(PostedLeaves[1].Filter).BetweenFilter).ToValue.Int64Value = "6"

\* C16: for a string filter whose match type is absent, validation defaults
\* the match type to EXACT, and the Filter leaf that Execute sends to the
\* gateway for that filter carries matchType EXACT.
C16_MatchTypeDefaulted ==
    (Posted /\ Len(PostedLeaves) = Len(PostedFilters)) =>
        \A k \in 1..Len(PostedFilters) :
            (PostedFilters[k].Type = "string" /\
             PostedFilters[k].StringMatchType = "") =>
                /\ Deref(PostedLeaves[k].Filter).StringFilter # Nil
                /\ Deref(Deref(PostedLeaves[k].Filter).StringFilter).MatchType = "EXACT"

\* C17: a filter whose type is left empty is treated as a string filter:
\* Execute validates it under the rules of string filters and compiles it to
\* a Filter leaf with a string payload, and does not fail with an unsupported
\* filter type error.
C17_EmptyTypeIsString ==
    (/\ last.op = "Execute"
     /\ \E k \in 1..Len(PostedFilters) : PostedFilters[k].Type = ""
     /\ Validated[last.input].err = "") =>
        /\ last.err # "failed to convert query config to API request"
        /\ Converted[last.input].err = ""
        /\ last.request # Nil =>
               \A k \in 1..Len(PostedFilters) :
                   PostedFilters[k].Type = "" =>
                       Populated(Deref(PostedLeaves[k].Filter)) = {"StringFilter"}

\* C18: for an order-by entry whose field type is unspecified the type is
\* inferred by membership, dimensions before metrics: the request sent to
\* the gateway orders by a dimension when the field is one of the
\* configuration's dimensions, by a metric only when it is one of its metrics
\* and not a dimension, and a field in neither list is rejected with a
\* validation error.
C18_OrderByKindInferred ==
    last.op = "Execute" =>
        LET c == Configs[last.input] IN
        \A k \in 1..Len(c.OrderBy) :
            (c.OrderBy[k].FieldType = "" /\ c.OrderBy[k].FieldName # "") =>
                LET name == c.OrderBy[k].FieldName IN
                /\ (~contains(c.Dimensions, name) /\ ~contains(c.Metrics, name)) =>
                       (last.err = "query validation failed" /\ last.request = Nil)
                /\ (last.request # Nil /\ contains(c.Dimensions, name)) =>
                       LET o == Deref(last.request).OrderBys[k] IN
                       /\ o.Metric = Nil
                       /\ o.Dimension # Nil
                       /\ Deref(o.Dimension).DimensionName = name
                /\ (last.request # Nil /\ ~contains(c.Dimensions, name)) =>
                       LET o == Deref(last.request).OrderBys[k] IN
                       /\ o.Dimension = Nil
                       /\ o.Metric # Nil
                       /\ Deref(o.Metric).MetricName = name

----------------------------------------------------------------------------
(* Properties of the Result and of the sweep: C19, C20 *)

\* C19: the Result returned by Execute is marked as coming from the cache
\* (FromCache = true) exactly when its payload was served by a cache hit, and
\* is not so marked when the payload was fetched from the gateway.
C19_FromCacheMarksHits ==
    (last.op = "Execute" /\ last.result # Nil /\ last.err = "") =>
        (Deref(last.result).FromCache <=> last.hit)

\* a row of either table whose expiry is earlier than time t
Expired(r, t) == Earlier(r.expires_at, t)

\* C20: a sweep removes exactly the rows of both tables whose expiry is in
\* the past, returns the number of rows it removed and leaves every
\* unexpired row in place, so a read of a live entry after the sweep is
\* still a hit.
C20_SweepRemovesExpired ==
    [][/\ (last'.op = "CleanupExpiredEntries" /\ ~last'.writeErr) =>
              /\ metadata_cache' = {r \in metadata_cache : ~Expired(r, now)}
              /\ query_cache' = {r \in query_cache : ~Expired(r, now)}
              /\ last'.deleted = Cardinality(metadata_cache \ metadata_cache') +
                                 Cardinality(query_cache \ query_cache')
       /\ (/\ last.op = "CleanupExpiredEntries" /\ ~last.writeErr
           /\ last'.op = "GetCachedQuery" /\ ~last'.readErr
           /\ SelectQuery(query_cache, last'.hash) # {}) =>
              /\ last'.found
              /\ \E r \in SelectQuery(query_cache, last'.hash) :
                     r.result_data = last'.data
       /\ (/\ last.op = "CleanupExpiredEntries" /\ ~last.writeErr
           /\ last'.op = "GetCachedMetadata" /\ ~last'.readErr
           /\ SelectMetadata(metadata_cache, last'.subject, last'.kind) # {}) =>
              /\ last'.found
              /\ \E r \in SelectMetadata(metadata_cache, last'.subject, last'.kind) :
                     r.data = last'.data]_vars

\* a sweep has removed an expired row and left a live one
C20_SweptOneKeptOne ==
    /\ last.op = "CleanupExpiredEntries"
    /\ ~last.writeErr
    /\ last.deleted >= 1
    /\ \E r \in query_cache \cup metadata_cache : ~Expired(r, now)

----------------------------------------------------------------------------
(* Properties of the cache statistics and of entries without TTL: C21, C22, *)
(* C23, C25                                                                *)

\* C21: every cache read is accounted exactly once: a read that returns a
\* hit adds one to the hit counter, leaves the miss counter alone and returns
\* the stored payload; a read that does not return a hit (entry absent,
\* expired or unreadable) adds one to the miss counter and leaves the hit
\* counter alone; so hits plus misses grows by one with every completed read.
C21_ReadsAccountedOnce ==
    [][last'.op \in {"GetCachedMetadata", "GetCachedQuery"} =>
          /\ total_hits' + total_misses' = total_hits + total_misses + 1
          /\ last'.found =>
                 /\ total_hits' = total_hits + 1
                 /\ total_misses' = total_misses
                 /\ last'.op = "GetCachedQuery" =>
                        \E r \in SelectQuery(query_cache, last'.hash) :
                            r.result_data = last'.data
                 /\ last'.op = "GetCachedMetadata" =>
                        \E r \in SelectMetadata(metadata_cache, last'.subject,
                                                 last'.kind) :
                            r.data = last'.data
          /\ ~last'.found =>
                 /\ total_misses' = total_misses + 1
                 /\ total_hits' = total_hits]_vars

\* the rows of a table that were written with no TTL
Persistent(table) == {r \in table : r.expires_at = NoExpiry}

\* C22: a query-result entry written with no TTL never expires: however far
\* the clock advances, a read of its digest returns a hit, and neither a read
\* nor a sweep removes it.
C22_NoTTLNeverExpires ==
    [][/\ last'.op \in {"GetCachedQuery", "CleanupExpiredEntries"} =>
              Persistent(query_cache) \subseteq query_cache'
       /\ (/\ last'.op = "GetCachedQuery"
           /\ ~last'.readErr
           /\ \E r \in Persistent(query_cache) : r.query_hash = last'.hash) =>
              last'.found]_vars

\* C23: when two writers store payloads under the same key (the same digest
\* for query results, the same subject and kind for metadata), after both
\* writes have returned a read of that key returns the payload of the write
\* that completed last, and only that one entry exists for the key.
C23_LastWriterWins ==
    /\ kept.metadata_cache # Nil =>
           /\ Cardinality(SelectMetadata(metadata_cache, FollowedMetadata[1],
                                         FollowedMetadata[2])) <= 1
           /\ (last.op = "GetCachedMetadata" /\ last.found) =>
                  last.data = Deref(kept.metadata_cache).data
    /\ kept.query_cache # Nil =>
           /\ Cardinality(SelectQuery(query_cache, FollowedQuery[1])) <= 1
           /\ (last.op = "GetCachedQuery" /\ last.found) =>
                  last.data = Deref(kept.query_cache).data

\* C25: the entry count reported by GetCacheStats equals the number of
\* metadata entries plus the number of query-result entries stored at that
\* moment.
C25_EntriesCounted ==
    (last.op = "GetCacheStats" /\ ~last.readErr) =>
        last.entries = Cardinality(metadata_cache) + Cardinality(query_cache)

----------------------------------------------------------------------------
(* Properties of the executor's result and of templates: C24, C29 *)

\* the overrides of the typed set: dates as strings, limit and offset as
\* integers
WellTyped(overrides) ==
    \A key \in DOMAIN overrides :
        \/ key \in {"start_date", "end_date"} /\ overrides[key].type = "string"
        \/ key \in {"limit", "offset"} /\ overrides[key].type \in {"int", "int64"}

\* the base spec with the start date, end date, limit and offset overrides
\* applied
Overridden(base, overrides) ==
    [base EXCEPT
        !.StartDate = IF "start_date" \in DOMAIN overrides
                      THEN overrides["start_date"].value ELSE @,
        !.EndDate = IF "end_date" \in DOMAIN overrides
                    THEN overrides["end_date"].value ELSE @,
        !.Limit = IF "limit" \in DOMAIN overrides
                  THEN overrides["limit"].value ELSE @,
        !.Offset = IF "offset" \in DOMAIN overrides
                   THEN overrides["offset"].value ELSE @]

C29_OneDigest ==
    (last.op = "Execute" /\ last.result # Nil /\ last.probed) =>
        /\ Deref(last.result).QueryHash = last.hash
        /\ last.wrote =>
               \E r \in SelectQuery(query_cache, Deref(last.result).QueryHash) :
                   r.result_data = last.data

----------------------------------------------------------------------------
(* Properties of the expiry classes of the data client: C26 *)

\* the rows of a call's key in the table it probes first
ProbedRows(mtable, qtable, call) ==
    IF call.op = "Execute" THEN SelectQuery(qtable, call.hash)
    ELSE SelectMetadata(mtable, call.subject, call.kind)

\* the call was not served from a cache: it went on to the gateway, which
\* answered or failed (an access token that cannot be had included)
WentToGateway(call) == call.outcome # "none"

\* the delay, in hours, of the class a call writes
ClassTTLHours(call) ==
    CASE call.op = "GetMetadata" -> 24
      [] call.op = "AnalyzeEvents" -> 1
      [] call.op = "Execute" -> 1

\* C26: every entry the DataClient writes carries a finite expiry fixed by
\* its payload class: field metadata stored by GetMetadata expires 24 hours
\* after the write, an event analysis stored by AnalyzeEvents 1 hour after
\* the write, and a query result stored by RunReport 1 hour after the write;
\* a read of any of them after that delay is a miss that goes to the gateway
\* again.
C26_ExpiryByClass ==
    [][last'.op \in {"GetMetadata", "AnalyzeEvents", "Execute"} =>
          /\ last'.wrote =>
                 \E r \in ProbedRows(metadata_cache', query_cache', last') :
                     r.expires_at = now + ClassTTLHours(last') * SecondsPerHour
          /\ (/\ last'.probed
              /\ ProbedRows(metadata_cache, query_cache, last') # {}
              /\ \A r \in ProbedRows(metadata_cache, query_cache, last') : r.expires_at < now) =>
                 (~last'.hit /\ WentToGateway(last'))]_vars

----------------------------------------------------------------------------
(* Properties of the presets: C27, C30 *)

\* C27: deleting a preset also deletes the cache associated with it: after
\* DeletePreset(name) succeeds and a preset with the same name is created
\* again, no cache entry written under the old preset (here: written, with a
\* TTL of one hour, in a second before the deletion) is returned as a hit.
C27_DeleteDropsCache ==
    (/\ last.op = "GetCachedMetadata"
     /\ last.found
     /\ deleted_at # Nil) =>
        Deref(last.expires) - SecondsPerHour >= Deref(deleted_at)

\* C30: after any sequence of CreatePreset, SetActivePreset and DeletePreset
\* calls, the active preset recorded in the global configuration is either
\* empty or the name of a preset that currently exists: SetActivePreset
\* refuses a name that does not exist, and DeletePreset of the active preset
\* clears the active preset.
C30_ActivePresetExists ==
    [][/\ active_preset' = "" \/ active_preset' \in presets'
       /\ (/\ last'.op = "SetActivePreset"
           /\ last'.subject # ""
           /\ last'.subject \notin presets) =>
              (last'.err # "" /\ active_preset' = active_preset)
       /\ (/\ last'.op = "DeletePreset"
           /\ last'.err = ""
           /\ active_preset = last'.subject) =>
              active_preset' = ""]_vars

----------------------------------------------------------------------------
(* Properties of reads and writes that run beside each other: C28 *)

\* C28: under any interleaving of concurrent reads and writes on the same
\* key, the lazy eviction performed by a read removes only an entry that is
\* expired: an entry written while a read that observed the key's previous,
\* expired entry is still in progress is not deleted by that read.
C28_EvictionRemovesOnlyExpired ==
    [][(reading # Nil /\ reading' = Nil) =>
          /\ \A r \in metadata_cache \ metadata_cache' :
                 r \in Deref(reading).rows /\ After(now, r.expires_at)
          /\ \A r \in query_cache \ query_cache' :
                 r \in Deref(reading).rows /\ QueryExpired(r, now)]_vars

====
